---- MODULE Spec2Model ----
(***************************************************************************)
(* Model of the fire/smoke/hotspot detection service (apps/ai/main.py):    *)
(* frame splitting, bounding box remapping, label classification, the      *)
(* detector pipelines, the stream type router, the statistics, the         *)
(* /detect and /status endpoints, and update_stats and GetStatus of the    *)
(* gRPC server (apps/ai/grpc_server.py).                                   *)
(*                                                                         *)
(* Conventions                                                             *)
(*   - Python None is the string "None".                                   *)
(*   - A confidence c in [0,1] is the integer c * ConfUnit, so that both   *)
(*     percentages (c = p/100) and mean intensities (c = m/255) are exact. *)
(*   - A label is a sequence of one-character strings.                     *)
(*   - A numpy array is a view [r0, c0, height, width] on the pixel buffer *)
(*     of the decoded frame: element (i, j) of the view is pixel           *)
(*     (r0 + i, c0 + j) of the buffer.  Basic slicing returns such views.  *)
(*   - Times are integers (clock ticks); a float computed by a division is *)
(*     the exact fraction [num, den] in lowest terms.                      *)
(*   - history is a history variable: the number of update_stats calls,    *)
(*     of enabled calls, the detections they reported and their times.     *)
(*   - requests is a history variable: the number of /detect requests    *)
(*     answered, and of those answered 200 with detection enabled.         *)
(*   - threads holds, for each worker thread of the gRPC server, the       *)
(*     position it has reached in update_stats and its local values.       *)
(*   - Detection and BoundingBox objects live in a heap (mem.dets,         *)
(*     mem.boxes); lists hold object ids, so aliasing and mutation are     *)
(*     visible.  mem.calls logs every backend invocation.                  *)
(***************************************************************************)
EXTENDS Integers, Sequences, FiniteSets, TLC

VARIABLES color_model, thermal_model, is_warmed_up, op, args, ret, mem,
          detection_stats, inference_times, history, threads, status_ret,
          requests

vars == <<color_model, thermal_model, is_warmed_up, op, args, ret, mem,
          detection_stats, inference_times, history, threads, status_ret,
          requests>>

\* the statistics (main.py:47-54) and the record of what the callers of
\* update_stats have done so far
stats_vars == <<detection_stats, inference_times, history>>

\* the worker threads of the gRPC server (grpc_server.py:320), the answer
\* of the last status call, which its caller keeps, and what the clients of
\* /detect have received so far
caller_vars == <<threads, status_ret, requests>>

\* ---------------------------------------------------------------- bounds
\* largest frame height and width drawn for split_frame and remap_bounding_boxes
MaxFrameDim == 7
\* largest frame height and width drawn for route_detection
MaxRouteDim == 2
\* largest number of raw candidates one backend invocation yields
MaxCands == 1
\* largest number of detections in a list handed to remap_bounding_boxes
MaxDets == 2
\* largest box coordinate drawn for a remap_bounding_boxes input
MaxCoord == 2
\* largest number of raw candidates one backend invocation yields in the
\* calls that exercise the confidence filter
MaxFilterCands == 3
\* largest number of word pieces a label handed to
\* map_label_to_detection_type is made of
MaxPieces == 3
\* largest number of bright regions in a frame handed to the heuristic
\* thermal detector
MaxBlobs == 2
\* number of first enabled update_stats calls whose inference time and
\* detection count are drawn freely
MaxVaried == 2
\* largest number of update_stats calls with detection disabled
MaxDisabled == 1
\* largest number of update_stats calls with detection enabled
MaxEnabled == 103
\* largest number of /detect requests
MaxDetects == 2
\* number of worker threads running update_stats at the same time
MaxThreads == 2
\* largest number of update_stats calls made around the status calls
MaxRecorded == 3
\* largest number of tiles in a gray frame made of a row of tiles
MaxTiles == 3

\* ------------------------------------------------------- program constants
\* confidences are integers in units of 1/ConfUnit
ConfUnit == 100 * 255
\* one percent, in confidence units
Pct == ConfUnit \div 100
\* an intensity step 1/255, in confidence units (main.py:160)
IntensityStep == ConfUnit \div 255
\* minimum contour area (main.py:151)
MinArea == 100
\* capacity of the latency queue (main.py:474)
WindowSize == 100
\* number of newest latencies the frame rate is computed from (main.py:480)
FpsWindow == 10

None == "None"

\* enums (main.py:26-38)
StreamType == {"COLOR", "THERMAL", "SPLIT"}
SplitLayout == {"LEFT_RIGHT", "TOP_BOTTOM"}
DetectionType == {"SMOKE", "FIRE", "HOTSPOT"}

\* ------------------------------------------------------------ small helpers
Min(a, b) == IF a <= b THEN a ELSE b

Max(a, b) == IF a >= b THEN a ELSE b

\* all sequences over S of length at most n
SeqsUpTo(S, n) == UNION {[1..k -> S] : k \in 0..n}

\* ------------------------------------------------------------------ labels
UpperChars == <<"A","B","C","D","E","F","G","H","I","J","K","L","M",
                "N","O","P","Q","R","S","T","U","V","W","X","Y","Z">>

LowerChars == <<"a","b","c","d","e","f","g","h","i","j","k","l","m",
                "n","o","p","q","r","s","t","u","v","w","x","y","z">>

\* str.lower() on one character
lower_char(ch) ==
    IF \E i \in 1..26 : UpperChars[i] = ch
    THEN LowerChars[CHOOSE i \in 1..26 : UpperChars[i] = ch]
    ELSE ch

\* str.lower()
lower(s) == [i \in 1..Len(s) |-> lower_char(s[i])]

\* Python's  sub in s  on strings
contains(s, sub) ==
    \E i \in 1..(Len(s) - Len(sub) + 1) : SubSeq(s, i, i + Len(sub) - 1) = sub

S_fire == <<"f","i","r","e">>
S_smoke == <<"s","m","o","k","e">>
S_hot == <<"h","o","t">>
S_hotspot == <<"h","o","t","s","p","o","t">>
S_person == <<"p","e","r","s","o","n">>

\* map_label_to_detection_type testing 'smoke' before 'fire'
map_label_smoke_first(label) ==
    LET label_lower == lower(label) IN
    IF contains(label_lower, S_smoke) THEN "SMOKE"
    ELSE IF contains(label_lower, S_fire) THEN "FIRE"
    ELSE IF contains(label_lower, S_hotspot) \/ contains(label_lower, S_hot) THEN "HOTSPOT"
    ELSE "SMOKE"

\* main.py:279-289
map_label_to_detection_type(label) ==
    LET label_lower == lower(label) IN
    IF contains(label_lower, S_fire) THEN "FIRE"
    ELSE IF contains(label_lower, S_smoke) THEN "SMOKE"
    ELSE IF contains(label_lower, S_hotspot) \/ contains(label_lower, S_hot) THEN "HOTSPOT"
    ELSE "SMOKE"

\* ------------------------------------------------------------ numpy arrays
\* the decoded frame of shape (H, W): a view on all of its own buffer
Frame(H, W) == [r0 |-> 0, c0 |-> 0, height |-> H, width |-> W]

\* image.shape[:2]
shape(image) == <<image.height, image.width>>

\* an omitted slice bound, as in  image[:, :mid]
Omit == -1

\* bounds of the Python slice  start:stop  on an axis of length n
\* (the indices given here are never negative)
slice_start(start, n) == IF start = Omit THEN 0 ELSE Min(start, n)

slice_stop(stop, n) == IF stop = Omit THEN n ELSE Min(stop, n)

\* image[rstart:rstop, cstart:cstop]
slice2(image, rstart, rstop, cstart, cstop) ==
    LET ra == slice_start(rstart, image.height)
        rb == Max(ra, slice_stop(rstop, image.height))
        ca == slice_start(cstart, image.width)
        cb == Max(ca, slice_stop(cstop, image.width))
    IN [r0 |-> image.r0 + ra, c0 |-> image.c0 + ca,
        height |-> rb - ra, width |-> cb - ca]

\* the buffer pixels a view shows
Pixels(view) ==
    {<<r, c>> : r \in view.r0 .. (view.r0 + view.height - 1),
                c \in view.c0 .. (view.c0 + view.width - 1)}

\* split_frame rounding the split index up instead of down
split_frame_round_up(image, layout) ==
    LET height == shape(image)[1]
        width == shape(image)[2]
    IN IF layout = "LEFT_RIGHT"
       THEN LET mid == (width + 1) \div 2
            IN <<slice2(image, Omit, Omit, Omit, mid),
                 slice2(image, Omit, Omit, mid, Omit)>>
       ELSE LET mid == (height + 1) \div 2
            IN <<slice2(image, Omit, mid, Omit, Omit),
                 slice2(image, mid, Omit, Omit, Omit)>>

\* main.py:334-347
split_frame(image, layout) ==
    LET height == shape(image)[1]
        width == shape(image)[2]
    IN IF layout = "LEFT_RIGHT"
       THEN LET mid == width \div 2
            IN <<slice2(image, Omit, Omit, Omit, mid),
                 slice2(image, Omit, Omit, mid, Omit)>>
       ELSE LET mid == height \div 2
            IN <<slice2(image, Omit, mid, Omit, Omit),
                 slice2(image, mid, Omit, Omit, Omit)>>

\* -------------------------------------------------------------------- heap
EmptyMem == [dets |-> <<>>, boxes |-> <<>>, calls |-> <<>>]

\* BoundingBox(x=.., y=.., width=.., height=..): allocates a new object
new_box(m, b) == [m EXCEPT !.boxes = Append(@, b)]

\* Detection(...): allocates a new object
new_det(m, d) == [m EXCEPT !.dets = Append(@, d)]

\* id of the object allocated last
last_box(m) == Len(m.boxes)

last_det(m) == Len(m.dets)

\* the value of one detection: its fields with the box by value
det_value(m, id) ==
    [label |-> m.dets[id].label,
     confidence |-> m.dets[id].confidence,
     boundingBox |-> m.boxes[m.dets[id].boundingBox],
     detectionType |-> m.dets[id].detectionType,
     channel |-> m.dets[id].channel]

\* the values of a list of detections
list_value(m, ids) == [i \in 1..Len(ids) |-> det_value(m, ids[i])]

\* allocate the detections of a list of values; the ids are
\* Len(m.dets)+1 .. Len(m.dets)+Len(vals)
RECURSIVE alloc_list(_, _)
alloc_list(m, vals) ==
    IF vals = <<>> THEN m
    ELSE LET v == Head(vals)
             m1 == new_box(m, v.boundingBox)
             m2 == new_det(m1, [label |-> v.label, confidence |-> v.confidence,
                                boundingBox |-> last_box(m1),
                                detectionType |-> v.detectionType,
                                channel |-> v.channel])
         IN alloc_list(m2, Tail(vals))

\* main.py:354-373, the loop body for detections[i..]
RECURSIVE remap_loop(_, _, _, _, _, _, _)
remap_loop(m, detections, i, layout, is_second_half, original_shape, remapped) ==
    IF i > Len(detections) THEN [mem |-> m, ret |-> remapped]
    ELSE LET height == original_shape[1]
             width == original_shape[2]
             detection == m.dets[detections[i]]
             bbox == m.boxes[detection.boundingBox]
             m1 == new_box(m, [x |-> bbox.x, y |-> bbox.y,
                               width |-> bbox.width, height |-> bbox.height])
             new_bbox == last_box(m1)
             m2 == IF layout = "LEFT_RIGHT"
                   THEN IF is_second_half
                        THEN [m1 EXCEPT !.boxes[new_bbox].x = bbox.x + (width \div 2)]
                        ELSE m1
                   ELSE IF is_second_half
                        THEN [m1 EXCEPT !.boxes[new_bbox].y = bbox.y + (height \div 2)]
                        ELSE m1
             m3 == new_det(m2, [label |-> detection.label,
                                confidence |-> detection.confidence,
                                boundingBox |-> new_bbox,
                                detectionType |-> detection.detectionType,
                                channel |-> detection.channel])
         IN remap_loop(m3, detections, i + 1, layout, is_second_half,
                       original_shape, Append(remapped, last_det(m3)))

\* remap_bounding_boxes reading the shape as (width, height)
remap_shape_swapped(m, detections, layout, is_second_half, original_shape) ==
    remap_loop(m, detections, 1, layout, is_second_half,
               <<original_shape[2], original_shape[1]>>, <<>>)

\* remap_bounding_boxes shifting the boxes of the first half too
remap_always_shift(m, detections, layout, is_second_half, original_shape) ==
    remap_loop(m, detections, 1, layout, TRUE, original_shape, <<>>)

\* remap_bounding_boxes never shifting
remap_never_shift(m, detections, layout, is_second_half, original_shape) ==
    remap_loop(m, detections, 1, layout, FALSE, original_shape, <<>>)

\* remap_bounding_boxes patching the boxes of its input in place and
\* returning the input detections
remap_in_place(m, detections, layout, is_second_half, original_shape) ==
    LET shifted(b) ==
            IF ~is_second_half THEN b
            ELSE IF layout = "LEFT_RIGHT"
            THEN [b EXCEPT !.x = @ + (original_shape[2] \div 2)]
            ELSE [b EXCEPT !.y = @ + (original_shape[1] \div 2)]
        touched == {m.dets[detections[i]].boundingBox : i \in 1..Len(detections)}
    IN [mem |-> [m EXCEPT !.boxes = [id \in DOMAIN m.boxes |->
                    IF id \in touched THEN shifted(m.boxes[id]) ELSE m.boxes[id]]],
        ret |-> detections]

\* main.py:349-375
remap_bounding_boxes(m, detections, layout, is_second_half, original_shape) ==
    remap_loop(m, detections, 1, layout, is_second_half, original_shape, <<>>)

\* ---------------------------------------------------------------- backends
\* What a backend answers when it is invoked.  The networks and OpenCV are
\* opaque: a response is an input of the call.
\*   raises      the invocation raises during inference
\*   results     the list a YOLO call returns; the boxes of a result are
\*               None (has_boxes is FALSE) or the raw candidates
\*               [conf, xyxy, label = names[cls]]
\*   contours    what cv2.findContours yields inside ThermalDetector.detect,
\*               each with its contourArea, boundingRect and the mean
\*               intensity of the region of interest
\*   detections  the Detection values the detect method of a backend of
\*               another kind returns
Response(raises, results, contours, detections) ==
    [raises |-> raises, results |-> results, contours |-> contours,
     detections |-> detections]

\* the outcome of a pipeline step: the list returned, or the exception raised
Returned(m, ids) == [mem |-> m, ret |-> ids, exc |-> None]

Raised(m, e) == [mem |-> m, ret |-> <<>>, exc |-> e]

\* log one backend invocation
invoke(m, backend, image, conf) ==
    [m EXCEPT !.calls = Append(@, [backend |-> backend, image |-> image,
                                   conf |-> conf])]

\* the loop of format_detections dropping a candidate whose confidence
\* equals the threshold
RECURSIVE format_loop_strict(_, _, _, _, _, _)
format_loop_strict(m, boxes, i, confidence_threshold, channel, detections) ==
    IF i > Len(boxes) THEN Returned(m, detections)
    ELSE LET confidence == boxes[i].conf IN
         IF confidence > confidence_threshold
         THEN LET m1 == new_box(m, [x |-> boxes[i].xyxy[1], y |-> boxes[i].xyxy[2],
                                    width |-> boxes[i].xyxy[3] - boxes[i].xyxy[1],
                                    height |-> boxes[i].xyxy[4] - boxes[i].xyxy[2]])
                  m2 == new_det(m1, [label |-> boxes[i].label, confidence |-> confidence,
                                     boundingBox |-> last_box(m1),
                                     detectionType |->
                                         map_label_to_detection_type(boxes[i].label),
                                     channel |-> channel])
              IN format_loop_strict(m2, boxes, i + 1, confidence_threshold, channel,
                                    Append(detections, last_det(m2)))
         ELSE format_loop_strict(m, boxes, i + 1, confidence_threshold, channel,
                                 detections)

\* main.py:304-330, the loop body for boxes[i..]
RECURSIVE format_loop(_, _, _, _, _, _)
format_loop(m, boxes, i, confidence_threshold, channel, detections) ==
    IF i > Len(boxes) THEN Returned(m, detections)
    ELSE LET confidence == boxes[i].conf IN
         IF confidence >= confidence_threshold
         THEN LET x1 == boxes[i].xyxy[1]
                  y1 == boxes[i].xyxy[2]
                  x2 == boxes[i].xyxy[3]
                  y2 == boxes[i].xyxy[4]
                  label == boxes[i].label
                  detection_type == map_label_to_detection_type(label)
                  m1 == new_box(m, [x |-> x1, y |-> y1,
                                    width |-> x2 - x1, height |-> y2 - y1])
                  m2 == new_det(m1, [label |-> label, confidence |-> confidence,
                                     boundingBox |-> last_box(m1),
                                     detectionType |-> detection_type,
                                     channel |-> channel])
              IN format_loop(m2, boxes, i + 1, confidence_threshold, channel,
                             Append(detections, last_det(m2)))
         ELSE format_loop(m, boxes, i + 1, confidence_threshold, channel, detections)

\* main.py:291-332
format_detections(m, results, confidence_threshold, channel) ==
    IF Len(results) = 0 THEN Returned(m, <<>>)
    ELSE LET result == results[1] IN
         IF result.has_boxes
         THEN format_loop(m, result.boxes, 1, confidence_threshold, channel, <<>>)
         ELSE Returned(m, <<>>)

\* the loop of ThermalDetector.detect reporting every region of sufficient
\* area, whatever its confidence
RECURSIVE contour_loop_unfiltered(_, _, _, _, _)
contour_loop_unfiltered(m, contours, i, confidence_threshold, detections) ==
    IF i > Len(contours) THEN Returned(m, detections)
    ELSE IF contours[i].area < MinArea
    THEN contour_loop_unfiltered(m, contours, i + 1, confidence_threshold, detections)
    ELSE LET rect == contours[i].rect
             confidence == Min(contours[i].mean * IntensityStep, ConfUnit)
             m1 == new_box(m, [x |-> rect[1], y |-> rect[2],
                               width |-> rect[3], height |-> rect[4]])
             m2 == new_det(m1, [label |-> S_hotspot, confidence |-> confidence,
                                boundingBox |-> last_box(m1),
                                detectionType |-> "HOTSPOT", channel |-> None])
         IN contour_loop_unfiltered(m2, contours, i + 1, confidence_threshold,
                                    Append(detections, last_det(m2)))

\* main.py:148-169, the loop body for contours[i..]
RECURSIVE contour_loop(_, _, _, _, _)
contour_loop(m, contours, i, confidence_threshold, detections) ==
    IF i > Len(contours) THEN Returned(m, detections)
    ELSE LET area == contours[i].area IN
         IF area < MinArea
         THEN contour_loop(m, contours, i + 1, confidence_threshold, detections)
         ELSE LET rect == contours[i].rect
                  mean_intensity == contours[i].mean
                  confidence == Min(mean_intensity * IntensityStep, ConfUnit)
              IN IF confidence >= confidence_threshold
                 THEN LET m1 == new_box(m, [x |-> rect[1], y |-> rect[2],
                                            width |-> rect[3], height |-> rect[4]])
                          m2 == new_det(m1, [label |-> S_hotspot,
                                             confidence |-> confidence,
                                             boundingBox |-> last_box(m1),
                                             detectionType |-> "HOTSPOT",
                                             channel |-> None])
                      IN contour_loop(m2, contours, i + 1, confidence_threshold,
                                      Append(detections, last_det(m2)))
                 ELSE contour_loop(m, contours, i + 1, confidence_threshold, detections)

\* main.py:132-171 (the OpenCV calls of lines 137-146 answer resp)
ThermalDetector_detect(m, image, confidence_threshold, resp) ==
    LET m1 == invoke(m, "thermal", image, confidence_threshold) IN
    IF resp.raises THEN Raised(m1, "BackendInferenceFailure")
    ELSE contour_loop(m1, resp.contours, 1, confidence_threshold, <<>>)

\* cv2.threshold(src, thresh, maxval, cv2.THRESH_BINARY) on one pixel:
\* maxval if src > thresh, else 0
cv2_threshold_inclusive(src, thresh, maxval) == IF src >= thresh THEN maxval ELSE 0

\* cv2.threshold with cv2.THRESH_BINARY_INV: 0 if src > thresh, else maxval
cv2_threshold_inverted(src, thresh, maxval) == IF src > thresh THEN 0 ELSE maxval

\* main.py:143, one pixel
cv2_threshold(src, thresh, maxval) == IF src > thresh THEN maxval ELSE 0

\* A gray frame is a black background (intensity 0) with separate
\* rectangular regions of uniform intensity: for each region its intensity,
\* its rectangle and the area cv2.contourArea computes for its outline.
\* main.py:143-159: the external contours of the binary image are the
\* regions whose pixels are non-zero after thresholding; the mean intensity
\* of gray over a contour's bounding rectangle is the region's intensity.
cv2_findContours(blobs, threshold) ==
    LET fg == SelectSeq(blobs, LAMBDA b : cv2_threshold(b.intensity, threshold, 255) # 0)
    IN [i \in 1..Len(fg) |->
          [area |-> fg[i].area, rect |-> fg[i].rect, mean |-> fg[i].intensity]]

\* main.py:128-171: ThermalDetector(threshold).detect(image, confidence_threshold)
\* on a gray frame given by its regions
ThermalDetector_detect_gray(m, image, blobs, threshold, confidence_threshold) ==
    ThermalDetector_detect(m, image, confidence_threshold,
                           Response(FALSE, <<>>, cv2_findContours(blobs, threshold), <<>>))

\* a YOLO model called on an image (main.py:384, 404)
YOLO_call(m, backend, image, conf, resp) ==
    LET m1 == invoke(m, backend, image, conf) IN
    IF resp.raises THEN Raised(m1, "BackendInferenceFailure")
    ELSE Returned(m1, resp.results)

\* for det in detections: det.channel = channel   (main.py:399-400)
set_channel(m, detections, channel) ==
    [m EXCEPT !.dets = [id \in DOMAIN m.dets |->
        IF \E i \in 1..Len(detections) : detections[i] = id
        THEN [m.dets[id] EXCEPT !.channel = channel]
        ELSE m.dets[id]]]

\* for det in detections: det.detectionType = HOTSPOT   (main.py:407-408)
set_hotspot(m, detections) ==
    [m EXCEPT !.dets = [id \in DOMAIN m.dets |->
        IF \E i \in 1..Len(detections) : detections[i] = id
        THEN [m.dets[id] EXCEPT !.detectionType = "HOTSPOT"]
        ELSE m.dets[id]]]

\* detect_color turning a failure of the model into an empty list
detect_color_swallow(m, image, confidence_threshold, channel, resp) ==
    IF color_model = None THEN Returned(m, <<>>)
    ELSE IF color_model = "YOLO"
    THEN LET results == YOLO_call(m, "color", image, confidence_threshold, resp) IN
         IF results.exc # None THEN Returned(results.mem, <<>>)
         ELSE format_detections(results.mem, results.ret, confidence_threshold, channel)
    ELSE Returned(m, <<>>)

\* main.py:377-387
detect_color(m, image, confidence_threshold, channel, resp) ==
    IF color_model = None THEN Returned(m, <<>>)
    ELSE IF color_model = "YOLO"
    THEN LET results == YOLO_call(m, "color", image, confidence_threshold, resp) IN
         IF results.exc # None THEN results
         ELSE format_detections(results.mem, results.ret, confidence_threshold, channel)
    ELSE Returned(m, <<>>)

\* detect_thermal leaving the label classifier's category on the detections
\* of a learned thermal model
detect_thermal_keep_type(m, image, confidence_threshold, channel, resp) ==
    IF thermal_model = None THEN Returned(m, <<>>)
    ELSE IF thermal_model = "ThermalDetector"
    THEN LET detections == ThermalDetector_detect(m, image, confidence_threshold, resp) IN
         IF detections.exc # None THEN detections
         ELSE Returned(set_channel(detections.mem, detections.ret, channel),
                       detections.ret)
    ELSE IF thermal_model = "YOLO"
    THEN LET results == YOLO_call(m, "thermal", image, confidence_threshold, resp) IN
         IF results.exc # None THEN results
         ELSE format_detections(results.mem, results.ret, confidence_threshold, channel)
    ELSE Returned(m, <<>>)

\* main.py:389-411
detect_thermal(m, image, confidence_threshold, channel, resp) ==
    IF thermal_model = None THEN Returned(m, <<>>)
    ELSE IF thermal_model = "ThermalDetector"
    THEN LET detections == ThermalDetector_detect(m, image, confidence_threshold, resp) IN
         IF detections.exc # None THEN detections
         ELSE Returned(set_channel(detections.mem, detections.ret, channel),
                       detections.ret)
    ELSE IF thermal_model = "YOLO"
    THEN LET results == YOLO_call(m, "thermal", image, confidence_threshold, resp) IN
         IF results.exc # None THEN results
         ELSE LET detections == format_detections(results.mem, results.ret,
                                                  confidence_threshold, channel)
              IN Returned(set_hotspot(detections.mem, detections.ret), detections.ret)
    ELSE Returned(m, <<>>)

\* detect_split putting the thermal detections before the color detections
detect_split_thermal_first(m, image, layout, confidence_threshold, color_resp, thermal_resp) ==
    LET halves == split_frame(image, layout)
        color_detections ==
            detect_color(m, halves[1], confidence_threshold, "color", color_resp)
    IN IF color_detections.exc # None THEN color_detections
       ELSE LET thermal_detections ==
                    detect_thermal(color_detections.mem, halves[2],
                                   confidence_threshold, "thermal", thermal_resp)
            IN IF thermal_detections.exc # None THEN thermal_detections
               ELSE LET color_detections_remapped ==
                            remap_bounding_boxes(thermal_detections.mem,
                                                 color_detections.ret, layout,
                                                 FALSE, shape(image))
                        thermal_detections_remapped ==
                            remap_bounding_boxes(color_detections_remapped.mem,
                                                 thermal_detections.ret, layout,
                                                 TRUE, shape(image))
                    IN Returned(thermal_detections_remapped.mem,
                                thermal_detections_remapped.ret
                                \o color_detections_remapped.ret)

\* main.py:413-433
detect_split(m, image, layout, confidence_threshold, color_resp, thermal_resp) ==
    LET original_shape == shape(image)
        halves == split_frame(image, layout)
        first_half == halves[1]
        second_half == halves[2]
        color_detections ==
            detect_color(m, first_half, confidence_threshold, "color", color_resp)
    IN IF color_detections.exc # None THEN color_detections
       ELSE LET thermal_detections ==
                    detect_thermal(color_detections.mem, second_half,
                                   confidence_threshold, "thermal", thermal_resp)
            IN IF thermal_detections.exc # None THEN thermal_detections
               ELSE LET color_detections_remapped ==
                            remap_bounding_boxes(thermal_detections.mem,
                                                 color_detections.ret, layout,
                                                 FALSE, original_shape)
                        thermal_detections_remapped ==
                            remap_bounding_boxes(color_detections_remapped.mem,
                                                 thermal_detections.ret, layout,
                                                 TRUE, original_shape)
                        all_detections == color_detections_remapped.ret
                                          \o thermal_detections_remapped.ret
                    IN Returned(thermal_detections_remapped.mem, all_detections)

\* route_detection sending THERMAL streams to the color pipeline
route_thermal_to_color(m, image, stream_type, split_layout, confidence_threshold, color_resp, thermal_resp) ==
    IF stream_type = "COLOR" \/ stream_type = "THERMAL"
    THEN detect_color(m, image, confidence_threshold, None, color_resp)
    ELSE IF stream_type = "SPLIT"
    THEN LET layout == IF split_layout = None THEN "LEFT_RIGHT" ELSE split_layout
         IN detect_split(m, image, layout, confidence_threshold,
                         color_resp, thermal_resp)
    ELSE detect_color(m, image, confidence_threshold, None, color_resp)

\* route_detection rejecting a stream type outside the enum
route_unknown_raises(m, image, stream_type, split_layout, confidence_threshold, color_resp, thermal_resp) ==
    IF stream_type = "COLOR"
    THEN detect_color(m, image, confidence_threshold, None, color_resp)
    ELSE IF stream_type = "THERMAL"
    THEN detect_thermal(m, image, confidence_threshold, None, thermal_resp)
    ELSE IF stream_type = "SPLIT"
    THEN LET layout == IF split_layout = None THEN "LEFT_RIGHT" ELSE split_layout
         IN detect_split(m, image, layout, confidence_threshold,
                         color_resp, thermal_resp)
    ELSE Raised(m, "ValueError")

\* route_detection defaulting a missing split layout to TOP_BOTTOM
route_default_top_bottom(m, image, stream_type, split_layout, confidence_threshold, color_resp, thermal_resp) ==
    IF stream_type = "COLOR"
    THEN detect_color(m, image, confidence_threshold, None, color_resp)
    ELSE IF stream_type = "THERMAL"
    THEN detect_thermal(m, image, confidence_threshold, None, thermal_resp)
    ELSE IF stream_type = "SPLIT"
    THEN LET layout == IF split_layout = None THEN "TOP_BOTTOM" ELSE split_layout
         IN detect_split(m, image, layout, confidence_threshold,
                         color_resp, thermal_resp)
    ELSE detect_color(m, image, confidence_threshold, None, color_resp)

\* main.py:435-450
route_detection(m, image, stream_type, split_layout, confidence_threshold, color_resp, thermal_resp) ==
    IF stream_type = "COLOR"
    THEN detect_color(m, image, confidence_threshold, None, color_resp)
    ELSE IF stream_type = "THERMAL"
    THEN detect_thermal(m, image, confidence_threshold, None, thermal_resp)
    ELSE IF stream_type = "SPLIT"
    THEN LET layout == IF split_layout = None THEN "LEFT_RIGHT" ELSE split_layout
         IN detect_split(m, image, layout, confidence_threshold,
                         color_resp, thermal_resp)
    ELSE detect_color(m, image, confidence_threshold, None, color_resp)

\* -------------------------------------------------------------- statistics
RECURSIVE GCD(_, _)
GCD(a, b) == IF b = 0 THEN a ELSE GCD(b, a % b)

\* the float a / b (a >= 0, b > 0) as a fraction in lowest terms
Frac(a, b) == LET g == GCD(a, b) IN [num |-> a \div g, den |-> b \div g]

\* 0.0
Zero == [num |-> 0, den |-> 1]

\* sum(times)
RECURSIVE sum(_)
sum(times) == IF times = <<>> THEN 0 ELSE Head(times) + sum(Tail(times))

\* the n oldest entries, times[:n]
first_n(times, n) == SubSeq(times, 1, Min(n, Len(times)))

\* times[-n:]
last_n(times, n) == SubSeq(times, Max(1, Len(times) - n + 1), Len(times))

\* times.pop(), dropping the newest entry
pop_newest(times) == SubSeq(times, 1, Len(times) - 1)

\* times.pop(0)
pop_oldest(times) == Tail(times)

\* update_stats counting a request only when detection is enabled
update_stats_enabled_only(st, inference_time, detections_count, detection_enabled) ==
    IF ~detection_enabled THEN st
    ELSE LET s2 == [st.stats EXCEPT !.total_requests = @ + 1,
                                   !.detection_enabled_requests = @ + 1,
                                   !.total_detections = @ + detections_count]
             t1 == Append(st.times, inference_time)
             t2 == IF Len(t1) > WindowSize THEN pop_oldest(t1) ELSE t1
             s3 == [s2 EXCEPT !.avg_inference_time = Frac(sum(t2), Len(t2))]
         IN IF Len(t2) >= FpsWindow
            THEN LET recent_times == last_n(t2, FpsWindow)
                     avg_time == Frac(sum(recent_times), Len(recent_times))
                 IN [stats |-> [s3 EXCEPT !.fps = IF avg_time.num > 0
                                                   THEN Frac(avg_time.den, avg_time.num)
                                                   ELSE Zero],
                     times |-> t2]
            ELSE [stats |-> s3, times |-> t2]

\* update_stats zeroing the latency and throughput fields on a disabled call
update_stats_reset_disabled(st, inference_time, detections_count, detection_enabled) ==
    LET s1 == [st.stats EXCEPT !.total_requests = @ + 1] IN
    IF ~detection_enabled
    THEN [stats |-> [s1 EXCEPT !.avg_inference_time = Zero, !.fps = Zero],
          times |-> st.times]
    ELSE LET s2 == [s1 EXCEPT !.detection_enabled_requests = @ + 1,
                              !.total_detections = @ + detections_count]
             t1 == Append(st.times, inference_time)
             t2 == IF Len(t1) > WindowSize THEN pop_oldest(t1) ELSE t1
             s3 == [s2 EXCEPT !.avg_inference_time = Frac(sum(t2), Len(t2))]
         IN IF Len(t2) >= FpsWindow
            THEN LET recent_times == last_n(t2, FpsWindow)
                     avg_time == Frac(sum(recent_times), Len(recent_times))
                 IN [stats |-> [s3 EXCEPT !.fps = IF avg_time.num > 0
                                                   THEN Frac(avg_time.den, avg_time.num)
                                                   ELSE Zero],
                     times |-> t2]
            ELSE [stats |-> s3, times |-> t2]

\* main.py:463-483 on st = [stats, times]: detection_stats and inference_times
update_stats(st, inference_time, detections_count, detection_enabled) ==
    LET s1 == [st.stats EXCEPT !.total_requests = @ + 1] IN
    IF ~detection_enabled THEN [stats |-> s1, times |-> st.times]
    ELSE LET s2 == [s1 EXCEPT !.detection_enabled_requests = @ + 1,
                              !.total_detections = @ + detections_count]
             t1 == Append(st.times, inference_time)
             t2 == IF Len(t1) > WindowSize THEN pop_oldest(t1) ELSE t1
             s3 == [s2 EXCEPT !.avg_inference_time = Frac(sum(t2), Len(t2))]
         IN IF Len(t2) >= FpsWindow
            THEN LET recent_times == last_n(t2, FpsWindow)
                     avg_time == Frac(sum(recent_times), Len(recent_times))
                 IN [stats |-> [s3 EXCEPT !.fps = IF avg_time.num > 0
                                                   THEN Frac(avg_time.den, avg_time.num)
                                                   ELSE Zero],
                     times |-> t2]
            ELSE [stats |-> s3, times |-> t2]

\* what one call of update_stats adds to the record of the callers' calls
record_call(h, inference_time, detections_count, detection_enabled) ==
    IF detection_enabled
    THEN [calls |-> h.calls + 1, enabled_calls |-> h.enabled_calls + 1,
          detections |-> h.detections + detections_count,
          times |-> Append(h.times, inference_time)]
    ELSE [h EXCEPT !.calls = @ + 1]

\* ------------------------------------------------- gray frames made of tiles
\* side of a square tile, in pixels
TileSize == 11

\* A gray frame can also be one row of square tiles, each of uniform
\* intensity, tile k covering the columns TileSize * (k - 1) up to
\* TileSize * k - 1.  The connected foreground regions of its binary image
\* are the maximal runs of adjacent tiles that pass cv2.threshold.
\* row_runs gives the runs among tiles[i..] as <<first, last>>; start is the
\* first tile of the run in progress, 0 when there is none.
RECURSIVE row_runs(_, _, _, _)
row_runs(tiles, threshold, i, start) ==
    IF i > Len(tiles)
    THEN IF start = 0 THEN <<>> ELSE <<(<<start, Len(tiles)>>)>>
    ELSE IF cv2_threshold(tiles[i], threshold, 255) # 0
    THEN row_runs(tiles, threshold, i + 1, IF start = 0 THEN i ELSE start)
    ELSE (IF start = 0 THEN <<>> ELSE <<(<<start, i - 1>>)>>)
         \o row_runs(tiles, threshold, i + 1, 0)

\* main.py:143-159 on a row of tiles: one external contour per run of n
\* tiles; it runs through the centres of the border pixels of the run, so
\* cv2.contourArea gives (TileSize * n - 1) * (TileSize - 1); the bounding
\* rectangle is the run and the mean of gray over it is the mean of the
\* intensities of its tiles (the intensities drawn make it a whole number)
cv2_findContours_row(tiles, threshold) ==
    LET found == row_runs(tiles, threshold, 1, 0)
    IN [k \in 1..Len(found) |->
          LET first == found[k][1]
              n == found[k][2] - found[k][1] + 1
          IN [area |-> (TileSize * n - 1) * (TileSize - 1),
              rect |-> <<TileSize * (first - 1), 0, TileSize * n, TileSize>>,
              mean |-> sum(SubSeq(tiles, first, found[k][2])) \div n]]

\* main.py:128-171: ThermalDetector(threshold).detect(image, confidence_threshold)
\* on a gray frame given by its row of tiles
ThermalDetector_detect_row(m, image, tiles, threshold, confidence_threshold) ==
    ThermalDetector_detect(m, image, confidence_threshold,
                           Response(FALSE, <<>>, cv2_findContours_row(tiles, threshold), <<>>))

\* ------------------------------------------------------------------ status
\* a dict handed on as it is: the holder sees the global dict detection_stats
Reference == [ref |-> "detection_stats", value |-> None]

\* a new dict with the items d has now
Copy(d) == [ref |-> None, value |-> d]

\* the items a held dict shows when it is read in the current state
Deref(x) == IF x.ref = None THEN x.value ELSE detection_stats

\* what a status call hands to its caller; taken is a history field, the
\* items detection_stats had when the call was made
StatusAnswer(fps, avg, stats) ==
    [answered |-> TRUE, fps |-> fps, avg_inference_time |-> avg, stats |-> stats,
     taken |-> detection_stats]

\* the empty dict GetStatus returns when it fails (grpc_server.py:301-305)
EmptyAnswer ==
    [answered |-> FALSE, fps |-> Zero, avg_inference_time |-> Zero, stats |-> Copy(None),
     taken |-> detection_stats]

\* main.py:622-651.  copies: validating the field stats: dict builds a new
\* dict (pydantic 2) or keeps the dict it was given (pydantic 1)
status(copies) ==
    StatusAnswer(detection_stats.fps, detection_stats.avg_inference_time,
                 IF copies THEN Copy(detection_stats) ELSE Reference)

\* grpc_server.py:264-305.  psutil_ok: importing and querying psutil succeed
GetStatus(psutil_ok) ==
    IF ~psutil_ok THEN EmptyAnswer
    ELSE StatusAnswer(detection_stats.fps, detection_stats.avg_inference_time, Reference)

\* ----------------------------------------------------------- model loading
\* main.py:173-202.  yolo_ok: YOLO(color_model_path) returns; warm_ok: moving
\* the model to the device and the warm-up inference succeed.
load_color_model(old_color_model, yolo_ok, warm_ok) ==
    IF ~yolo_ok THEN [color_model |-> old_color_model, success |-> FALSE]
    ELSE IF ~warm_ok THEN [color_model |-> "YOLO", success |-> FALSE]
    ELSE [color_model |-> "YOLO", success |-> TRUE]

\* main.py:204-230.  path_ok: THERMAL_MODEL_PATH is set and exists; yolo_ok
\* and warm_ok as above.  Every failure falls back to the heuristic detector.
load_thermal_model(path_ok, yolo_ok, warm_ok) ==
    IF path_ok /\ yolo_ok /\ warm_ok THEN "YOLO" ELSE "ThermalDetector"

\* ------------------------------------------------------------ /detect
\* None where a number is expected (an Optional[float] that is not given)
Absent == -1

\* an exception object: HTTPException(status_code, detail), an exception of
\* another type, and no exception
HTTPException(status_code, detail) ==
    [type |-> "HTTPException", status_code |-> status_code, detail |-> detail]

OtherException(type) == [type |-> type, status_code |-> 0, detail |-> None]

NoException == [type |-> None, status_code |-> 0, detail |-> None]

\* what the client receives: an error answer carries the status code, the
\* detail text and, where the text embeds str(e) of a caught exception e,
\* that exception as cause; a DetectionResponse carries status 200
ErrorAnswer(status_code, detail, cause) ==
    [status_code |-> status_code, detail |-> detail, cause |-> cause,
     detections |-> <<>>, inferenceTime |-> Absent, enabled |-> FALSE]

DetectionResponse(detections, inferenceTime, enabled) ==
    [status_code |-> 200, detail |-> None, cause |-> NoException,
     detections |-> detections, inferenceTime |-> inferenceTime, enabled |-> enabled]

\* the outcome of the handler: the statistics, the record of the
\* update_stats calls, the objects of the call and the answer
Outcome(st, h, m, answer) == [st |-> st, history |-> h, mem |-> m, answer |-> answer]

\* main.py:599-620: the outcome of route_detection recorded and answered
detect_answer(st, h, detections, elapsed) ==
    IF detections.exc # None
    THEN \* except Exception (main.py:618-620)
         Outcome(st, h, detections.mem,
                 ErrorAnswer(500, "Detection failed", OtherException(detections.exc)))
    ELSE LET inference_time == elapsed
             n == Len(detections.ret)
         IN Outcome(update_stats(st, inference_time, n, TRUE),
                    record_call(h, inference_time, n, TRUE),
                    detections.mem,
                    DetectionResponse(detections.ret, inference_time, TRUE))

\* main.py:582-620, the try block: decode, check readiness, route, record
detect_try(st, h, req, env, image, color_resp, thermal_resp, elapsed) ==
    IF ~req.decodable
    THEN \* process_image / process_base64_image raise HTTPException(400);
         \* except Exception catches it (main.py:618-620)
         Outcome(st, h, EmptyMem,
                 ErrorAnswer(500, "Detection failed", HTTPException(400, "Invalid image data")))
    ELSE IF is_warmed_up /\ (color_model # None \/ thermal_model # None)
    THEN LET confidence_threshold ==
                 IF req.confidenceThreshold = Absent \/ req.confidenceThreshold = 0
                 THEN env.CONFIDENCE_THRESHOLD ELSE req.confidenceThreshold
             stream_type == IF req.streamType = None THEN "COLOR" ELSE req.streamType
             split_layout == req.splitLayout
         IN detect_answer(st, h,
                          route_detection(EmptyMem, image, stream_type, split_layout,
                                          confidence_threshold, color_resp, thermal_resp),
                          elapsed)
    ELSE \* raise HTTPException(503) inside the try: except Exception catches
         \* it and raises HTTPException(500) (main.py:603, 618-620)
         Outcome(st, h, EmptyMem,
                 ErrorAnswer(500, "Detection failed",
                             HTTPException(503, "Model not loaded or warmed up")))

\* detect validating the image before it looks at enabled
detect_image_first(st, h, req, env, image, color_resp, thermal_resp, elapsed) ==
    IF req.streamType \notin StreamType \cup {None}
       \/ req.splitLayout \notin SplitLayout \cup {None}
    THEN Outcome(st, h, EmptyMem, ErrorAnswer(500, "Internal Server Error", OtherException("ValueError")))
    ELSE
    LET enableDetection == IF req.enableDetection = None THEN TRUE
                           ELSE req.enableDetection = "true"
        enabled == enableDetection /\ env.ENABLE_DETECTION
        st1 == update_stats(st, 0, 0, enabled)
        h1 == record_call(h, 0, 0, enabled)
        st2 == [st1 EXCEPT !.stats.total_requests = @ - 1]
    IN IF ~req.file /\ ~req.base64_image
       THEN Outcome(st2, h1, EmptyMem,
                    ErrorAnswer(400, "Either file upload or base64_image must be provided",
                                NoException))
       ELSE IF ~enabled
       THEN LET inference_time == elapsed
            IN Outcome(update_stats(st2, inference_time, 0, enabled),
                       record_call(h1, inference_time, 0, enabled),
                       EmptyMem,
                       DetectionResponse(<<>>, inference_time, FALSE))
       ELSE detect_try(st2, h1, req, env, image, color_resp, thermal_resp, elapsed)

\* main.py:518-620.  req: the request (whether a file or a base64 image is
\* present and decodes, and the fields of DetectionRequest, enableDetection
\* being None, "true" or "false"); env: the
\* environment (ENABLE_DETECTION is "true", CONFIDENCE_THRESHOLD); elapsed:
\* time.time() - start_time when it is read.
detect(st, h, req, env, image, color_resp, thermal_resp, elapsed) ==
    IF req.streamType \notin StreamType \cup {None}
       \/ req.splitLayout \notin SplitLayout \cup {None}
    THEN \* StreamType(streamType) or SplitLayout(splitLayout) raises
         \* ValueError (main.py:544-545): the server answers 500
         Outcome(st, h, EmptyMem, ErrorAnswer(500, "Internal Server Error", OtherException("ValueError")))
    ELSE
    LET enableDetection == IF req.enableDetection = None THEN TRUE
                           ELSE req.enableDetection = "true"
        enabled == enableDetection /\ env.ENABLE_DETECTION
        \* update_stats(0, 0, enabled); total_requests -= 1
        st1 == update_stats(st, 0, 0, enabled)
        h1 == record_call(h, 0, 0, enabled)
        st2 == [st1 EXCEPT !.stats.total_requests = @ - 1]
    IN IF ~enabled
       THEN LET inference_time == elapsed
            IN Outcome(update_stats(st2, inference_time, 0, enabled),
                       record_call(h1, inference_time, 0, enabled),
                       EmptyMem,
                       DetectionResponse(<<>>, inference_time, FALSE))
       ELSE IF ~req.file /\ ~req.base64_image
       THEN Outcome(st2, h1, EmptyMem,
                    ErrorAnswer(400, "Either file upload or base64_image must be provided",
                                NoException))
       ELSE detect_try(st2, h1, req, env, image, color_resp, thermal_resp, elapsed)

\* what one answer of /detect adds to the record of the answers
count_answer(q, answer) ==
    [answered |-> q.answered + 1,
     served |-> IF answer.status_code = 200 /\ answer.enabled
                THEN q.served + 1 ELSE q.served]

\* ------------------------------------------------------------------ inputs
Dims(n) == 0..n

\* confidence thresholds a caller passes
Thresholds == {15 * Pct, 50 * Pct}

\* stream type values a caller passes: the enum, and values outside it
StreamTypeValues == StreamType \cup {"INFRARED", None}

SplitLayoutValues == SplitLayout \cup {None}

\* raw candidates of a YOLO color model
ColorCands ==
    {[conf |-> 85 * Pct, xyxy |-> <<1, 1, 3, 2>>, label |-> S_fire],
     [conf |-> 15 * Pct, xyxy |-> <<0, 1, 1, 3>>, label |-> S_person]}

\* raw candidates of a YOLO thermal model
ThermalCands ==
    {[conf |-> 90 * Pct, xyxy |-> <<0, 0, 2, 2>>, label |-> S_fire],
     [conf |-> 15 * Pct, xyxy |-> <<1, 1, 2, 3>>, label |-> S_hotspot]}

\* contours OpenCV finds for the heuristic detector
Contours ==
    {[area |-> 100, rect |-> <<0, 0, 2, 1>>, mean |-> 51],
     [area |-> 99, rect |-> <<0, 1, 1, 2>>, mean |-> 255]}

\* what a YOLO model can answer: it raises, an empty list, a result without
\* boxes, or a result with up to MaxCands candidates
YoloResponses(cands) ==
    {Response(TRUE, <<>>, <<>>, <<>>),
     Response(FALSE, <<>>, <<>>, <<>>),
     Response(FALSE, <<[has_boxes |-> FALSE, boxes |-> <<>>]>>, <<>>, <<>>)}
    \cup {Response(FALSE, <<[has_boxes |-> TRUE, boxes |-> b]>>, <<>>, <<>>) : b \in SeqsUpTo(cands, MaxCands)}

\* what OpenCV can answer inside the heuristic detector
ContourResponses ==
    {Response(TRUE, <<>>, <<>>, <<>>)}
    \cup {Response(FALSE, <<>>, c, <<>>) : c \in SeqsUpTo(Contours, MaxCands)}

\* no backend, no answer
NoResponse == Response(FALSE, <<>>, <<>>, <<>>)

ColorResponses == IF color_model = None THEN {NoResponse} ELSE YoloResponses(ColorCands)

ThermalResponses ==
    IF thermal_model = "ThermalDetector" THEN ContourResponses
    ELSE IF thermal_model = "YOLO" THEN YoloResponses(ThermalCands)
    ELSE {NoResponse}

\* sequences over S of length at most n without repetition
InjSeqsUpTo(S, n) ==
    {q \in SeqsUpTo(S, n) : \A i, j \in DOMAIN q : i # j => q[i] # q[j]}

\* thresholds of the calls that exercise the confidence filter
FilterThresholds == {0, 80 * Pct}

\* raw candidates of a YOLO model in those calls
FilterCands ==
    {[conf |-> 85 * Pct, xyxy |-> <<0, 0, 1, 1>>, label |-> S_fire],
     [conf |-> 15 * Pct, xyxy |-> <<0, 1, 1, 2>>, label |-> S_person],
     [conf |-> 95 * Pct, xyxy |-> <<1, 0, 2, 1>>, label |-> S_smoke],
     [conf |-> 80 * Pct, xyxy |-> <<0, 0, 1, 2>>, label |-> S_hot]}

\* contours OpenCV finds for the heuristic detector in those calls
FilterContours ==
    {[area |-> 100, rect |-> <<0, 0, 1, 1>>, mean |-> 204],
     [area |-> 120, rect |-> <<0, 1, 1, 1>>, mean |-> 51],
     [area |-> 99, rect |-> <<0, 0, 1, 2>>, mean |-> 255]}

FilterYoloResponses ==
    {Response(TRUE, <<>>, <<>>, <<>>)}
    \cup {Response(FALSE, <<[has_boxes |-> TRUE, boxes |-> b]>>, <<>>, <<>>) : b \in InjSeqsUpTo(FilterCands, MaxFilterCands)}

FilterContourResponses ==
    {Response(TRUE, <<>>, <<>>, <<>>)}
    \cup {Response(FALSE, <<>>, c, <<>>) : c \in InjSeqsUpTo(FilterContours, MaxFilterCands)}

FilterColorResponses == IF color_model = None THEN {NoResponse} ELSE FilterYoloResponses

FilterThermalResponses ==
    IF thermal_model = "ThermalDetector" THEN FilterContourResponses
    ELSE IF thermal_model = "YOLO" THEN FilterYoloResponses
    ELSE {NoResponse}

\* pieces of the class labels handed to map_label_to_detection_type
Pieces ==
    {<<"H","o","t"," ">>, <<"F","i","r","e"," ">>, <<"S","m","o","k","e">>,
     <<"h","o","t">>, <<"z","o","n","e">>, <<"c","a","r">>,
     <<"F","I","R">>, <<"E">>, <<"s","m","o">>, <<"K","E">>}

\* the pieces of a list joined into one string
RECURSIVE Join(_)
Join(pieces) == IF pieces = <<>> THEN <<>> ELSE Head(pieces) \o Join(Tail(pieces))

\* the labels: every string made of at most MaxPieces pieces
Labels == {Join(q) : q \in SeqsUpTo(Pieces, MaxPieces)}

\* intensity thresholds a heuristic detector is built with (THERMAL_THRESHOLD,
\* default 200)
IntensityThresholds == {180, 200}

\* intensities of the bright regions
BlobIntensities == <<180, 199, 200, 201, 255>>

\* shapes of the bright regions as <<width, height, area>>: the contour of a
\* block of w x h pixels runs through the centres of its border pixels, so
\* cv2.contourArea gives (w - 1) * (h - 1)
BlobShapes == <<<<12, 10, 99>>, <<11, 11, 100>>, <<16, 11, 150>>>>

\* bright regions of a gray frame, laid out on a grid so that they lie apart
Blobs ==
    {[intensity |-> BlobIntensities[i], area |-> BlobShapes[j][3],
      rect |-> <<20 * (i - 1), 20 * (j - 1), BlobShapes[j][1], BlobShapes[j][2]>>] :
        i \in DOMAIN BlobIntensities, j \in DOMAIN BlobShapes}

\* inference times (in ticks) and detection counts of the first enabled
\* update_stats calls
Times == {0, 4}

Counts == {0, 3}

\* <<inference time, detection count>> of the next enabled call: free for
\* the first MaxVaried enabled calls; after them the service is either
\* instantaneous (the time stays 0) or cycles through the times 1, 2, 3,
\* with one detection per call
EnabledInputs ==
    IF history.enabled_calls < MaxVaried THEN Times \X Counts
    ELSE LET last == history.times[Len(history.times)]
         IN {<<IF last = 0 THEN 0 ELSE (last % 3) + 1, 1>>}

\* <<inference time, detection count>> of a call with detection disabled
DisabledInputs == {<<7, 4>>}

\* a /detect request with a decodable base64 image and no other field
PlainRequest ==
    [file |-> FALSE, base64_image |-> TRUE, decodable |-> TRUE,
     enableDetection |-> None, confidenceThreshold |-> Absent,
     streamType |-> None, splitLayout |-> None]

\* the /detect requests: the plain request with enableDetection set, with
\* the image given, missing or broken, and with the routing fields set
DetectRequests ==
    {[PlainRequest EXCEPT !.enableDetection = e] : e \in {None, "true", "false"}}
    \cup {[PlainRequest EXCEPT !.file = f, !.base64_image = b, !.decodable = d] :
            f \in BOOLEAN, b \in BOOLEAN, d \in BOOLEAN}
    \cup {[PlainRequest EXCEPT !.confidenceThreshold = t, !.streamType = st,
                               !.splitLayout = l] :
            t \in {Absent, 0, 50 * Pct}, st \in StreamTypeValues,
            l \in {None, "TOP_BOTTOM"}}

\* the environment: ENABLE_DETECTION is "true" or not, CONFIDENCE_THRESHOLD
\* has its default 0.25
Environments ==
    {[ENABLE_DETECTION |-> e, CONFIDENCE_THRESHOLD |-> 25 * Pct] : e \in BOOLEAN}

\* what the backends answer during a /detect request
DetectColorResponses ==
    IF color_model = None THEN {NoResponse}
    ELSE {Response(TRUE, <<>>, <<>>, <<>>)}
         \cup {Response(FALSE, <<[has_boxes |-> TRUE, boxes |-> <<c>>]>>, <<>>, <<>>) : c \in ColorCands}

DetectThermalResponses ==
    IF thermal_model = "ThermalDetector"
    THEN {Response(TRUE, <<>>, <<>>, <<>>),
          Response(FALSE, <<>>, <<[area |-> 100, rect |-> <<0, 0, 1, 1>>, mean |-> 204]>>, <<>>)}
    ELSE IF thermal_model = "YOLO"
    THEN {Response(TRUE, <<>>, <<>>, <<>>)}
         \cup {Response(FALSE, <<[has_boxes |-> TRUE, boxes |-> <<c>>]>>, <<>>, <<>>) : c \in {k \in ThermalCands : k.label = S_fire}}
    ELSE {NoResponse}

\* time.time() - start_time, in ticks
ElapsedTimes == {3}

\* detections handed to remap_bounding_boxes
DetValues ==
    {[label |-> S_smoke, confidence |-> 80 * Pct,
      boundingBox |-> [x |-> k, y |-> 2 * k + 1, width |-> 5, height |-> 6],
      detectionType |-> "SMOKE", channel |-> "color"] : k \in 0..MaxCoord}
    \cup
    {[label |-> S_hotspot, confidence |-> 90 * Pct,
      boundingBox |-> [x |-> k + 1, y |-> k, width |-> 8, height |-> 7],
      detectionType |-> "HOTSPOT", channel |-> "thermal"] : k \in 0..MaxCoord}

\* the worker threads of the pool
Threads == 1..MaxThreads

\* a worker thread that has not been handed a call
NotStarted ==
    [pc |-> "NotStarted", inference_time |-> 0, detections_count |-> 0,
     detection_enabled |-> FALSE, value |-> 0, total |-> 0, recent_times |-> <<>>]

\* <<inference time, detection count>> of a call handed to a worker thread
ThreadInputs == {<<4, 3>>}

\* the queue lengths at which the concurrent calls arrive: an empty queue,
\* one entry short of the throughput window, one short of full, and full
ArrivalLens == {0, FpsWindow - 1, WindowSize - 1, WindowSize}

\* intensities of the tiles of a gray frame: background, dim and bright
\* (every mean of up to five of the last two is a whole number)
TileIntensities == {0, 120, 240}

\* the rows of tiles
TileRows == SeqsUpTo(TileIntensities, MaxTiles)

\* intensity thresholds the two detectors compared on one frame are built with
TileThresholds == {100, 200}

\* confidence thresholds passed to the two detectors
TileConfidences == {25 * Pct, 70 * Pct}

\* ------------------------------------------------------------ state machine
NoArgs == [none |-> None]

NoRet == [none |-> None]

\* module import: main.py:40-54
Init ==
    /\ color_model = None
    /\ thermal_model = None
    /\ is_warmed_up = FALSE
    /\ op = "init"
    /\ args = NoArgs
    /\ ret = NoRet
    /\ mem = EmptyMem
    /\ detection_stats = [total_requests |-> 0, detection_enabled_requests |-> 0,
                          total_detections |-> 0, avg_inference_time |-> Zero,
                          fps |-> Zero]
    /\ inference_times = <<>>
    /\ history = [calls |-> 0, enabled_calls |-> 0, detections |-> 0, times |-> <<>>]
    /\ threads = [t \in Threads |-> NotStarted]
    /\ status_ret = NoRet
    /\ requests = [answered |-> 0, served |-> 0]

\* no call is in progress
Idle == op \in {"init", "idle", "load_model"}

\* main.py:232-244
load_model ==
    /\ Idle
    /\ \E c_yolo_ok, c_warm_ok, t_path_ok, t_yolo_ok, t_warm_ok \in BOOLEAN :
        LET c == load_color_model(color_model, c_yolo_ok, c_warm_ok) IN
        /\ color_model' = c.color_model
        /\ is_warmed_up' = (IF c.success THEN TRUE ELSE is_warmed_up)
        /\ thermal_model' = load_thermal_model(t_path_ok, t_yolo_ok, t_warm_ok)
        /\ op' = "load_model"
        /\ args' = NoArgs
        /\ ret' = [value |-> c.success]
        /\ mem' = EmptyMem
        /\ UNCHANGED stats_vars
        /\ UNCHANGED caller_vars

\* a call of split_frame
SplitFrame ==
    /\ Idle
    /\ \E H \in Dims(MaxFrameDim), W \in Dims(MaxFrameDim), layout \in SplitLayout :
        LET halves == split_frame(Frame(H, W), layout) IN
        /\ op' = "split_frame"
        /\ args' = [image |-> Frame(H, W), layout |-> layout]
        /\ ret' = [first |-> halves[1], second |-> halves[2]]
        /\ mem' = EmptyMem
        /\ UNCHANGED <<color_model, thermal_model, is_warmed_up>>
        /\ UNCHANGED stats_vars
        /\ UNCHANGED caller_vars

\* a call of remap_bounding_boxes on a list the caller holds
RemapBoundingBoxes ==
    /\ Idle
    /\ \E vals \in SeqsUpTo(DetValues, MaxDets), layout \in SplitLayout,
       is_second_half \in BOOLEAN,
       H \in Dims(MaxFrameDim), W \in Dims(MaxFrameDim) :
        LET m0 == alloc_list(EmptyMem, vals)
            detections == [i \in 1..Len(vals) |-> i]
            r == remap_bounding_boxes(m0, detections, layout, is_second_half, <<H, W>>)
        IN /\ op' = "remap_bounding_boxes"
           /\ args' = [detections |-> detections, values |-> vals, layout |-> layout,
                       is_second_half |-> is_second_half, original_shape |-> <<H, W>>]
           /\ ret' = [value |-> r.ret]
           /\ mem' = r.mem
           /\ UNCHANGED <<color_model, thermal_model, is_warmed_up>>
           /\ UNCHANGED stats_vars
           /\ UNCHANGED caller_vars

\* a call of route_detection
RouteDetection ==
    /\ Idle
    /\ \E H \in Dims(MaxRouteDim), W \in Dims(MaxRouteDim),
       stream_type \in StreamTypeValues, split_layout \in SplitLayoutValues,
       confidence_threshold \in Thresholds,
       color_resp \in ColorResponses, thermal_resp \in ThermalResponses :
        LET r == route_detection(EmptyMem, Frame(H, W), stream_type, split_layout,
                                 confidence_threshold, color_resp, thermal_resp)
        IN /\ op' = "route_detection"
           /\ args' = [image |-> Frame(H, W), stream_type |-> stream_type,
                       split_layout |-> split_layout,
                       confidence_threshold |-> confidence_threshold,
                       color_resp |-> color_resp, thermal_resp |-> thermal_resp]
           /\ ret' = [value |-> r.ret, exc |-> r.exc]
           /\ mem' = r.mem
           /\ UNCHANGED <<color_model, thermal_model, is_warmed_up>>
           /\ UNCHANGED stats_vars
           /\ UNCHANGED caller_vars

\* a call of route_detection whose backends yield several candidates
RouteCandidates ==
    /\ Idle
    /\ \E stream_type \in StreamType, confidence_threshold \in FilterThresholds,
       color_resp \in FilterColorResponses, thermal_resp \in FilterThermalResponses :
        LET image == Frame(MaxRouteDim, MaxRouteDim)
            r == route_detection(EmptyMem, image, stream_type, None,
                                 confidence_threshold, color_resp, thermal_resp)
        IN /\ op' = "route_detection"
           /\ args' = [image |-> image, stream_type |-> stream_type,
                       split_layout |-> None,
                       confidence_threshold |-> confidence_threshold,
                       color_resp |-> color_resp, thermal_resp |-> thermal_resp]
           /\ ret' = [value |-> r.ret, exc |-> r.exc]
           /\ mem' = r.mem
           /\ UNCHANGED <<color_model, thermal_model, is_warmed_up>>
           /\ UNCHANGED stats_vars
           /\ UNCHANGED caller_vars

\* a call of map_label_to_detection_type
MapLabel ==
    /\ Idle
    /\ \E label \in Labels :
        /\ op' = "map_label_to_detection_type"
        /\ args' = [label |-> label]
        /\ ret' = [value |-> map_label_to_detection_type(label)]
        /\ mem' = EmptyMem
        /\ UNCHANGED <<color_model, thermal_model, is_warmed_up>>
        /\ UNCHANGED stats_vars
        /\ UNCHANGED caller_vars

\* a call of ThermalDetector(threshold).detect on a gray frame
HeuristicDetect ==
    /\ Idle
    /\ \E threshold \in IntensityThresholds, confidence_threshold \in Thresholds,
       blobs \in InjSeqsUpTo(Blobs, MaxBlobs) :
        LET image == Frame(480, 640)
            r == ThermalDetector_detect_gray(EmptyMem, image, blobs, threshold,
                                             confidence_threshold)
        IN /\ op' = "ThermalDetector.detect"
           /\ args' = [image |-> image, blobs |-> blobs, threshold |-> threshold,
                       confidence_threshold |-> confidence_threshold]
           /\ ret' = [value |-> r.ret, exc |-> r.exc]
           /\ mem' = r.mem
           /\ UNCHANGED <<color_model, thermal_model, is_warmed_up>>
           /\ UNCHANGED stats_vars
           /\ UNCHANGED caller_vars

\* a call of update_stats
UpdateStats ==
    /\ Idle
    /\ \E detection_enabled \in BOOLEAN :
        /\ detection_enabled => history.enabled_calls < MaxEnabled
        /\ ~detection_enabled => history.calls - history.enabled_calls < MaxDisabled
        /\ \E tn \in (IF detection_enabled THEN EnabledInputs ELSE DisabledInputs) :
            LET r == update_stats([stats |-> detection_stats, times |-> inference_times],
                                  tn[1], tn[2], detection_enabled)
            IN /\ detection_stats' = r.stats
               /\ inference_times' = r.times
               /\ history' = record_call(history, tn[1], tn[2], detection_enabled)
               /\ op' = "update_stats"
               /\ args' = [inference_time |-> tn[1], detections_count |-> tn[2],
                           detection_enabled |-> detection_enabled]
               /\ ret' = NoRet
               /\ mem' = EmptyMem
               /\ UNCHANGED <<color_model, thermal_model, is_warmed_up>>
               /\ UNCHANGED caller_vars

\* a POST /detect request, from its arrival to its answer
Detect ==
    /\ Idle
    /\ requests.answered < MaxDetects
    /\ \E req \in DetectRequests, env \in Environments, elapsed \in ElapsedTimes,
       color_resp \in DetectColorResponses, thermal_resp \in DetectThermalResponses :
        LET image == Frame(MaxRouteDim, MaxRouteDim)
            r == detect([stats |-> detection_stats, times |-> inference_times], history,
                        req, env, image, color_resp, thermal_resp, elapsed)
        IN /\ detection_stats' = r.st.stats
           /\ inference_times' = r.st.times
           /\ history' = r.history
           /\ op' = "detect"
           /\ args' = [req |-> req, env |-> env, image |-> image, elapsed |-> elapsed,
                       color_resp |-> color_resp, thermal_resp |-> thermal_resp]
           /\ ret' = r.answer
           /\ mem' = r.mem
           /\ requests' = count_answer(requests, r.answer)
           /\ UNCHANGED <<color_model, thermal_model, is_warmed_up>>
           /\ UNCHANGED <<threads, status_ret>>

\* ---------------------------------------------------- update_stats, threaded
\* thread t moves to position pc
Goto(t, pc) == threads' = [threads EXCEPT ![t].pc = pc]

\* thread t moves to position pc having read v from shared state
GotoWith(t, pc, v) == threads' = [threads EXCEPT ![t].pc = pc, ![t].value = v]

\* what a step of update_stats in a thread leaves alone
ThreadFrame == UNCHANGED <<color_model, thermal_model, is_warmed_up, op, args, ret, mem, status_ret, requests>>

\* grpc_server.py:316-330: the pool hands a call of update_stats to an idle
\* worker thread
Submit(t) ==
    /\ Idle
    /\ threads[t].pc = "NotStarted"
    /\ Len(inference_times) \in ArrivalLens
    /\ \E detection_enabled \in BOOLEAN, tn \in ThreadInputs :
        /\ threads' = [threads EXCEPT ![t] =
                [pc |-> "load_total_requests", inference_time |-> tn[1],
                 detections_count |-> tn[2], detection_enabled |-> detection_enabled,
                 value |-> 0, total |-> 0, recent_times |-> <<>>]]
        /\ history' = record_call(history, tn[1], tn[2], detection_enabled)
    /\ UNCHANGED <<detection_stats, inference_times>>
    /\ ThreadFrame

\* grpc_server.py:179, detection_stats["total_requests"] += 1: the read
LoadTotalRequests(t) ==
    /\ threads[t].pc = "load_total_requests"
    /\ GotoWith(t, "store_total_requests", detection_stats.total_requests)
    /\ UNCHANGED stats_vars
    /\ ThreadFrame

\* grpc_server.py:179-180: the write, then the test of detection_enabled
StoreTotalRequests(t) ==
    /\ threads[t].pc = "store_total_requests"
    /\ detection_stats' = [detection_stats EXCEPT !.total_requests = threads[t].value + 1]
    /\ Goto(t, IF threads[t].detection_enabled THEN "load_detection_enabled_requests"
               ELSE "Finished")
    /\ UNCHANGED <<inference_times, history>>
    /\ ThreadFrame

\* grpc_server.py:181, detection_stats["detection_enabled_requests"] += 1: the read
LoadEnabledRequests(t) ==
    /\ threads[t].pc = "load_detection_enabled_requests"
    /\ GotoWith(t, "store_detection_enabled_requests",
                detection_stats.detection_enabled_requests)
    /\ UNCHANGED stats_vars
    /\ ThreadFrame

\* grpc_server.py:181: the write
StoreEnabledRequests(t) ==
    /\ threads[t].pc = "store_detection_enabled_requests"
    /\ detection_stats' =
            [detection_stats EXCEPT !.detection_enabled_requests = threads[t].value + 1]
    /\ Goto(t, "load_total_detections")
    /\ UNCHANGED <<inference_times, history>>
    /\ ThreadFrame

\* grpc_server.py:182, detection_stats["total_detections"] += detections_count: the read
LoadTotalDetections(t) ==
    /\ threads[t].pc = "load_total_detections"
    /\ GotoWith(t, "store_total_detections", detection_stats.total_detections)
    /\ UNCHANGED stats_vars
    /\ ThreadFrame

\* grpc_server.py:182: the write
StoreTotalDetections(t) ==
    /\ threads[t].pc = "store_total_detections"
    /\ detection_stats' =
            [detection_stats EXCEPT !.total_detections =
                                        threads[t].value + threads[t].detections_count]
    /\ Goto(t, "append")
    /\ UNCHANGED <<inference_times, history>>
    /\ ThreadFrame

\* grpc_server.py:184, inference_times.append(inference_time)
AppendTime(t) ==
    /\ threads[t].pc = "append"
    /\ inference_times' = Append(inference_times, threads[t].inference_time)
    /\ Goto(t, "check_len")
    /\ UNCHANGED <<detection_stats, history>>
    /\ ThreadFrame

\* grpc_server.py:186, if len(inference_times) > 100
CheckLen(t) ==
    /\ threads[t].pc = "check_len"
    /\ Goto(t, IF Len(inference_times) > WindowSize THEN "pop" ELSE "sum_times")
    /\ UNCHANGED stats_vars
    /\ ThreadFrame

\* grpc_server.py:187, inference_times.pop(0)
PopTime(t) ==
    /\ threads[t].pc = "pop"
    /\ inference_times' = pop_oldest(inference_times)
    /\ Goto(t, "sum_times")
    /\ UNCHANGED <<detection_stats, history>>
    /\ ThreadFrame

\* grpc_server.py:189, sum(inference_times)
SumTimes(t) ==
    /\ threads[t].pc = "sum_times"
    /\ threads' = [threads EXCEPT ![t].pc = "len_times", ![t].total = sum(inference_times)]
    /\ UNCHANGED stats_vars
    /\ ThreadFrame

\* grpc_server.py:189, len(inference_times)
LenTimes(t) ==
    /\ threads[t].pc = "len_times"
    /\ GotoWith(t, "store_avg", Len(inference_times))
    /\ UNCHANGED stats_vars
    /\ ThreadFrame

\* grpc_server.py:189, detection_stats["avg_inference_time"] = ... / ...
StoreAvg(t) ==
    /\ threads[t].pc = "store_avg"
    /\ detection_stats' =
            [detection_stats EXCEPT !.avg_inference_time =
                                        Frac(threads[t].total, threads[t].value)]
    /\ Goto(t, "check_fps")
    /\ UNCHANGED <<inference_times, history>>
    /\ ThreadFrame

\* grpc_server.py:192, if len(inference_times) >= 10
CheckFps(t) ==
    /\ threads[t].pc = "check_fps"
    /\ Goto(t, IF Len(inference_times) >= FpsWindow THEN "slice_recent" ELSE "Finished")
    /\ UNCHANGED stats_vars
    /\ ThreadFrame

\* grpc_server.py:193, recent_times = inference_times[-10:]
SliceRecent(t) ==
    /\ threads[t].pc = "slice_recent"
    /\ threads' = [threads EXCEPT ![t].pc = "store_fps",
                                  ![t].recent_times = last_n(inference_times, FpsWindow)]
    /\ UNCHANGED stats_vars
    /\ ThreadFrame

\* grpc_server.py:194-195, avg_time and detection_stats["fps"] = ...
StoreFps(t) ==
    /\ threads[t].pc = "store_fps"
    /\ LET recent_times == threads[t].recent_times
           avg_time == Frac(sum(recent_times), Len(recent_times))
       IN detection_stats' =
            [detection_stats EXCEPT !.fps = IF avg_time.num > 0
                                            THEN Frac(avg_time.den, avg_time.num)
                                            ELSE Zero]
    /\ Goto(t, "Finished")
    /\ UNCHANGED <<inference_times, history>>
    /\ ThreadFrame

\* a call of update_stats made while no worker thread runs
SequentialUpdate ==
    /\ \A t \in Threads : threads[t].pc = "NotStarted"
    /\ UpdateStats

\* a GET /status request
Status ==
    /\ Idle
    /\ \E copies \in BOOLEAN :
        /\ ret' = status(copies)
        /\ status_ret' = status(copies)
    /\ op' = "status"
    /\ args' = NoArgs
    /\ mem' = EmptyMem
    /\ UNCHANGED <<color_model, thermal_model, is_warmed_up, threads, requests>>
    /\ UNCHANGED stats_vars

\* a GetStatus call on the gRPC servicer
CallGetStatus ==
    /\ Idle
    /\ \E psutil_ok \in BOOLEAN :
        /\ ret' = GetStatus(psutil_ok)
        /\ status_ret' = GetStatus(psutil_ok)
    /\ op' = "GetStatus"
    /\ args' = NoArgs
    /\ mem' = EmptyMem
    /\ UNCHANGED <<color_model, thermal_model, is_warmed_up, threads, requests>>
    /\ UNCHANGED stats_vars

\* a call of update_stats before or after a status call
RecordCall ==
    /\ history.calls < MaxRecorded
    /\ UpdateStats

\* two heuristic detectors, built with the thresholds low <= high, called
\* on the same gray frame with the same confidence threshold
HeuristicDetectTwice ==
    /\ Idle
    /\ \E tiles \in TileRows, low \in TileThresholds, high \in TileThresholds,
       confidence_threshold \in TileConfidences :
        LET image == Frame(TileSize, TileSize * Len(tiles))
            at_low == ThermalDetector_detect_row(EmptyMem, image, tiles, low,
                                                 confidence_threshold)
            at_high == ThermalDetector_detect_row(EmptyMem, image, tiles, high,
                                                  confidence_threshold)
        IN /\ low <= high
           /\ op' = "ThermalDetector.detect twice"
           /\ args' = [image |-> image, tiles |-> tiles, low |-> low, high |-> high,
                       confidence_threshold |-> confidence_threshold]
           /\ ret' = [low |-> [value |-> at_low.ret, mem |-> at_low.mem],
                      high |-> [value |-> at_high.ret, mem |-> at_high.mem]]
           /\ mem' = EmptyMem
           /\ UNCHANGED <<color_model, thermal_model, is_warmed_up>>
           /\ UNCHANGED stats_vars
           /\ UNCHANGED caller_vars

\* the caller has taken the result; the objects of the call are dropped
Return ==
    /\ ~Idle
    /\ op' = "idle"
    /\ args' = NoArgs
    /\ ret' = NoRet
    /\ mem' = EmptyMem
    /\ UNCHANGED <<color_model, thermal_model, is_warmed_up>>
    /\ UNCHANGED stats_vars
    /\ UNCHANGED caller_vars

\* the service: start-up and routing calls
Next == load_model \/ RouteDetection \/ Return

Spec == Init /\ [][Next]_vars

\* calls of split_frame on every frame shape
NextSplit == SplitFrame \/ Return

SpecSplit == Init /\ [][NextSplit]_vars

\* calls of remap_bounding_boxes on every list, layout, half and frame shape
NextRemap == RemapBoundingBoxes \/ Return

SpecRemap == Init /\ [][NextRemap]_vars

\* routing calls with several candidates per backend
NextFilter == load_model \/ RouteCandidates \/ Return

SpecFilter == Init /\ [][NextFilter]_vars

\* calls of map_label_to_detection_type on every label
NextLabel == MapLabel \/ Return

SpecLabel == Init /\ [][NextLabel]_vars

\* calls of the heuristic thermal detector on gray frames
NextHeuristic == HeuristicDetect \/ Return

SpecHeuristic == Init /\ [][NextHeuristic]_vars

\* calls of update_stats, more than the latency queue holds
NextStats == UpdateStats \/ Return

SpecStats == Init /\ [][NextStats]_vars

\* the service: start-up and /detect requests
NextDetect == load_model \/ Detect \/ Return

SpecDetect == Init /\ [][NextDetect]_vars

\* update_stats called from the worker threads of the gRPC server
NextThreads ==
    \/ SequentialUpdate
    \/ Return
    \/ \E t \in Threads :
        \/ Submit(t)
        \/ LoadTotalRequests(t)
        \/ StoreTotalRequests(t)
        \/ LoadEnabledRequests(t)
        \/ StoreEnabledRequests(t)
        \/ LoadTotalDetections(t)
        \/ StoreTotalDetections(t)
        \/ AppendTime(t)
        \/ CheckLen(t)
        \/ PopTime(t)
        \/ SumTimes(t)
        \/ LenTimes(t)
        \/ StoreAvg(t)
        \/ CheckFps(t)
        \/ SliceRecent(t)
        \/ StoreFps(t)

SpecThreads == Init /\ [][NextThreads]_vars

\* the status operations between calls of update_stats
NextStatus == RecordCall \/ Status \/ CallGetStatus \/ Return

SpecStatus == Init /\ [][NextStatus]_vars

\* the heuristic detector at two thresholds on one frame
NextMonotone == HeuristicDetectTwice \/ Return

SpecMonotone == Init /\ [][NextMonotone]_vars

\* ================================================================== claims

\* ------------------------------------------------------------------- C3
IsSplit == op = "split_frame"

\* the pixels of rows [ra, rb) and columns [ca, cb) of the frame buffer
Region(ra, rb, ca, cb) == {<<r, c>> : r \in ra..(rb - 1), c \in ca..(cb - 1)}

\* C3: split_frame returns, for LEFT_RIGHT, columns [0, W div 2) and
\* [W div 2, W) of all rows and, for TOP_BOTTOM, rows [0, H div 2) and
\* [H div 2, H) of all columns; the halves are disjoint and together hold
\* every pixel of the frame; the second half is larger by exactly one along
\* the split axis when that dimension is odd (and equal when it is even);
\* with a split dimension of 0 or 1 the call returns and the first half is
\* empty.
C3_SplitFrameHalves ==
    IsSplit =>
        LET H == args.image.height
            W == args.image.width
            first == ret.first
            second == ret.second
        IN /\ args.layout = "LEFT_RIGHT" =>
                /\ Pixels(first) = Region(0, H, 0, W \div 2)
                /\ Pixels(second) = Region(0, H, W \div 2, W)
                /\ shape(first) = <<H, W \div 2>>
                /\ shape(second) = <<H, W - (W \div 2)>>
                /\ second.width - first.width = W % 2
                /\ W \in {0, 1} => first.width = 0
           /\ args.layout = "TOP_BOTTOM" =>
                /\ Pixels(first) = Region(0, H \div 2, 0, W)
                /\ Pixels(second) = Region(H \div 2, H, 0, W)
                /\ shape(first) = <<H \div 2, W>>
                /\ shape(second) = <<H - (H \div 2), W>>
                /\ second.height - first.height = H % 2
                /\ H \in {0, 1} => first.height = 0
           /\ Pixels(first) \cap Pixels(second) = {}
           /\ Pixels(first) \cup Pixels(second) = Pixels(args.image)
           /\ Cardinality(Pixels(first)) + Cardinality(Pixels(second)) = H * W

\* an odd width of at least 3 split LEFT_RIGHT
C3_Witness ==
    /\ IsSplit
    /\ args.layout = "LEFT_RIGHT"
    /\ args.image.width = 5
    /\ args.image.height = 2
    /\ ret.second.width = 3

\* ------------------------------------------------------- C2, C5 and C6
IsRemap == op = "remap_bounding_boxes"

\* the values of the list remap_bounding_boxes returned
RemapOut == list_value(mem, ret.value)

\* C2: with is_second_half = true remap_bounding_boxes adds exactly W div 2
\* to x and leaves y for LEFT_RIGHT, adds exactly H div 2 to y and leaves x
\* for TOP_BOTTOM, never changes width or height, and the offset it adds is
\* the index at which split_frame starts the second half of a frame of the
\* same shape under the same layout.
C2_SecondHalfOffset ==
    (IsRemap /\ args.is_second_half) =>
        LET H == args.original_shape[1]
            W == args.original_shape[2]
            second == split_frame(Frame(H, W), args.layout)[2]
        IN /\ Len(RemapOut) = Len(args.values)
           /\ \A i \in 1..Len(args.values) :
                LET a == args.values[i].boundingBox
                    b == RemapOut[i].boundingBox
                IN /\ b.width = a.width
                   /\ b.height = a.height
                   /\ args.layout = "LEFT_RIGHT" =>
                        /\ b.x = a.x + (W \div 2)
                        /\ b.y = a.y
                        /\ b.x - a.x = second.c0
                   /\ args.layout = "TOP_BOTTOM" =>
                        /\ b.y = a.y + (H \div 2)
                        /\ b.x = a.x
                        /\ b.y - a.y = second.r0

\* two boxes of the right half of a frame of odd width moved by W div 2
C2_Witness ==
    /\ IsRemap
    /\ args.is_second_half
    /\ args.layout = "LEFT_RIGHT"
    /\ args.original_shape = <<4, 7>>
    /\ Len(args.values) = 2
    /\ RemapOut[1].boundingBox.x = args.values[1].boundingBox.x + 3

\* C5: with is_second_half = false remap_bounding_boxes returns boxes equal
\* to the input boxes in x, y, width and height, for both layouts.
C5_FirstHalfIdentity ==
    (IsRemap /\ ~args.is_second_half) =>
        /\ Len(RemapOut) = Len(args.values)
        /\ \A i \in 1..Len(args.values) :
                RemapOut[i].boundingBox = args.values[i].boundingBox

\* a first-half list remapped on a frame whose half sizes are not zero
C5_Witness ==
    /\ IsRemap
    /\ ~args.is_second_half
    /\ args.layout = "TOP_BOTTOM"
    /\ args.original_shape = <<6, 3>>
    /\ Len(args.values) = 2

\* the ids of the BoundingBox objects of a list of detections
BoxIds(ids) == {mem.dets[ids[i]].boundingBox : i \in 1..Len(ids)}

\* C6: remap_bounding_boxes leaves its input as it was: after the call each
\* input detection, its box included, has the value it had before; the list
\* returned has the length and order of the input, holds new Detection
\* objects with new boxes, and label, confidence, category and channel at
\* each position equal those of the input.
C6_InputNotMutated ==
    IsRemap =>
        /\ list_value(mem, args.detections) = args.values
        /\ Len(ret.value) = Len(args.detections)
        /\ \A i \in 1..Len(ret.value) :
                /\ \A j \in 1..Len(args.detections) : ret.value[i] # args.detections[j]
                /\ RemapOut[i].label = args.values[i].label
                /\ RemapOut[i].confidence = args.values[i].confidence
                /\ RemapOut[i].detectionType = args.values[i].detectionType
                /\ RemapOut[i].channel = args.values[i].channel
        /\ BoxIds(ret.value) \cap BoxIds(args.detections) = {}

\* a second-half remap that moved the returned boxes of two detections
C6_Witness ==
    /\ IsRemap
    /\ args.is_second_half
    /\ args.layout = "TOP_BOTTOM"
    /\ args.original_shape = <<5, 2>>
    /\ Len(args.values) = 2
    /\ RemapOut[2].boundingBox.y = args.values[2].boundingBox.y + 2
    /\ args.values[1].channel # args.values[2].channel

\* --------------------------------------------- what the backends yield
IsRoute == op = "route_detection"

\* the call returned a list (it did not raise)
RouteReturned == IsRoute /\ ret.exc = None

\* the values of the list route_detection returned
RouteOut == list_value(mem, ret.value)

\* label, confidence and box of a detection
Core(d) == [label |-> d.label, confidence |-> d.confidence,
            boundingBox |-> d.boundingBox]

\* the raw candidates of a YOLO answer
CandsOf(resp) ==
    IF Len(resp.results) = 0 THEN <<>>
    ELSE IF resp.results[1].has_boxes THEN resp.results[1].boxes
    ELSE <<>>

\* one detection per candidate at or above the threshold, in the order of
\* the candidates: label and confidence of the candidate, box (x1, y1,
\* x2 - x1, y2 - y1)
YoloYield(resp, thr) ==
    LET kept == SelectSeq(CandsOf(resp), LAMBDA c : c.conf >= thr)
    IN [i \in 1..Len(kept) |->
          [label |-> kept[i].label, confidence |-> kept[i].conf,
           boundingBox |-> [x |-> kept[i].xyxy[1], y |-> kept[i].xyxy[2],
                            width |-> kept[i].xyxy[3] - kept[i].xyxy[1],
                            height |-> kept[i].xyxy[4] - kept[i].xyxy[2]]]]

\* one hotspot per region of at least 100 pixels whose mean intensity / 255
\* (at most 1) is at or above the threshold, with the region's rectangle
HeuristicYield(resp, thr) ==
    LET conf(c) == IF c.mean >= 255 THEN ConfUnit ELSE c.mean * (ConfUnit \div 255)
        kept == SelectSeq(resp.contours, LAMBDA c : c.area >= 100 /\ conf(c) >= thr)
    IN [i \in 1..Len(kept) |->
          [label |-> S_hotspot, confidence |-> conf(kept[i]),
           boundingBox |-> [x |-> kept[i].rect[1], y |-> kept[i].rect[2],
                            width |-> kept[i].rect[3], height |-> kept[i].rect[4]]]]

\* the detections of the color backend for this call
ColorYield == YoloYield(args.color_resp, args.confidence_threshold)

\* the detections of the thermal backend for this call
ThermalYield ==
    IF thermal_model = "ThermalDetector"
    THEN HeuristicYield(args.thermal_resp, args.confidence_threshold)
    ELSE YoloYield(args.thermal_resp, args.confidence_threshold)

\* one backend invocation as the log records it
Call(backend, image, conf) == [backend |-> backend, image |-> image, conf |-> conf]

\* rows [ra, rb) and columns [ca, cb) of the frame, as an array
View(ra, rb, ca, cb) == [r0 |-> ra, c0 |-> ca, height |-> rb - ra, width |-> cb - ca]

ThermalOut == SelectSeq(RouteOut, LAMBDA d : d.channel = "thermal")

\* C4: for every detection the thermal backend produces from the second
\* half of a split frame with its box corner inside that sub-frame
\* (0 <= x < W - W div 2 and 0 <= y < H - H div 2), the box detect_split
\* returns has its corner inside the second half of the original frame:
\* W div 2 <= x < W for LEFT_RIGHT, H div 2 <= y < H for TOP_BOTTOM.
C4_ThermalCornerInSecondHalf ==
    (/\ RouteReturned
     /\ args.stream_type = "SPLIT"
     /\ args.split_layout \in SplitLayout
     /\ thermal_model # None) =>
        LET H == args.image.height
            W == args.image.width
        IN /\ Len(ThermalOut) = Len(ThermalYield)
           /\ \A j \in 1..Len(ThermalYield) :
                LET a == ThermalYield[j].boundingBox
                    b == ThermalOut[j].boundingBox
                IN (/\ 0 <= a.x /\ a.x < W - (W \div 2)
                    /\ 0 <= a.y /\ a.y < H - (H \div 2)) =>
                        /\ args.split_layout = "LEFT_RIGHT" =>
                                (W \div 2 <= b.x /\ b.x < W)
                        /\ args.split_layout = "TOP_BOTTOM" =>
                                (H \div 2 <= b.y /\ b.y < H)

\* a thermal box at (0, 0) of the bottom half of a frame of height 2
C4_Witness ==
    /\ RouteReturned
    /\ args.stream_type = "SPLIT"
    /\ args.split_layout = "TOP_BOTTOM"
    /\ args.image.height = 2
    /\ args.image.width = 1
    /\ Len(ThermalYield) = 1
    /\ ThermalYield[1].boundingBox.x = 0
    /\ ThermalYield[1].boundingBox.y = 0
    /\ Len(ThermalOut) = 1
    /\ ThermalOut[1].boundingBox.y = 1

RouteAs(stream_type, split_layout) ==
    route_detection(EmptyMem, args.image, stream_type, split_layout,
                    args.confidence_threshold, args.color_resp, args.thermal_resp)

\* C9: for a stream type value that is not COLOR, THERMAL or SPLIT,
\* route_detection returns the same result and invokes the same backend as
\* for COLOR with the same frame and threshold, and raises nothing of its
\* own (it raises only when the color backend does).
C9_UnknownTypeAsColor ==
    (IsRoute /\ args.stream_type \notin StreamType) =>
        LET r == RouteAs("COLOR", args.split_layout) IN
        /\ ret.value = r.ret
        /\ ret.exc = r.exc
        /\ mem = r.mem
        /\ \A k \in 1..Len(mem.calls) : mem.calls[k].backend = "color"
        /\ ret.exc # None => (color_model # None /\ args.color_resp.raises)
        /\ (ret.exc = None /\ color_model # None) =>
                /\ Len(mem.calls) = 1
                /\ Len(RouteOut) = Len(ColorYield)

\* a stream type outside the enum served by the color backend
C9_Witness ==
    /\ RouteReturned
    /\ args.stream_type = "INFRARED"
    /\ color_model = "YOLO"
    /\ Len(RouteOut) = 1
    /\ RouteOut[1].channel = None
    /\ Len(mem.calls) = 1

\* ------------------------------------------------------------------ C10
\* C10: for stream type SPLIT with no split layout, route_detection returns
\* the same result as for SPLIT with layout LEFT_RIGHT on the same frame and
\* threshold, and raises nothing of its own (it raises only when a backend
\* does).
C10_MissingLayoutIsLeftRight ==
    (IsRoute /\ args.stream_type = "SPLIT" /\ args.split_layout = None) =>
        LET r == RouteAs("SPLIT", "LEFT_RIGHT")
            H == args.image.height
            W == args.image.width
        IN /\ ret.value = r.ret
           /\ ret.exc = r.exc
           /\ mem = r.mem
           /\ ret.exc # None => (args.color_resp.raises \/ args.thermal_resp.raises)
           /\ \A k \in 1..Len(mem.calls) :
                mem.calls[k].image \in {View(0, H, 0, W \div 2), View(0, H, W \div 2, W)}

\* a SPLIT call without layout on a frame of height 2 and width 2 whose
\* thermal box moved by 1 in x and not in y
C10_Witness ==
    /\ RouteReturned
    /\ args.stream_type = "SPLIT"
    /\ args.split_layout = None
    /\ args.image.width = 2
    /\ args.image.height = 2
    /\ Len(ColorYield) = 0
    /\ Len(ThermalYield) = 1
    /\ Len(RouteOut) = 1
    /\ RouteOut[1].boundingBox.x = ThermalYield[1].boundingBox.x + 1
    /\ RouteOut[1].boundingBox.y = ThermalYield[1].boundingBox.y

\* ------------------------------------------------------------------ C11
\* the backend was invoked in this call
Invoked(backend) == \E k \in 1..Len(mem.calls) : mem.calls[k].backend = backend

\* the candidates a backend produced in this call, as <<confidence, label>>:
\* the boxes of a learned model, the regions of at least 100 pixels of the
\* heuristic detector with confidence mean / 255 capped at 1
CandidatesOf(backend) ==
    IF ~Invoked(backend) THEN <<>>
    ELSE IF backend = "thermal" /\ thermal_model = "ThermalDetector"
    THEN LET big == SelectSeq(args.thermal_resp.contours, LAMBDA c : c.area >= 100)
         IN [i \in 1..Len(big) |->
                <<IF big[i].mean * 100 >= 25500 THEN ConfUnit
                  ELSE (big[i].mean * ConfUnit) \div 255, S_hotspot>>]
    ELSE LET b == CandsOf(IF backend = "color" THEN args.color_resp
                          ELSE args.thermal_resp)
         IN [i \in 1..Len(b) |-> <<b[i].conf, b[i].label>>]

\* how many of the candidates have confidence at least thr
NumAtLeast(cands, thr) == Cardinality({i \in 1..Len(cands) : cands[i][1] >= thr})

\* C11: for every stream type, every backend kind and every threshold t no
\* detection returned by route_detection has confidence < t, and every
\* backend candidate with confidence >= t is returned (candidates 0.85, 0.15,
\* 0.95 with t = 0.8 give exactly two detections).
C11_ConfidenceFilter ==
    RouteReturned =>
        LET thr == args.confidence_threshold
            all == CandidatesOf("color") \o CandidatesOf("thermal")
        IN /\ \A i \in 1..Len(RouteOut) : RouteOut[i].confidence >= thr
           /\ Len(RouteOut) = NumAtLeast(all, thr)
           /\ \A k \in 1..Len(all) :
                all[k][1] >= thr =>
                    \E i \in 1..Len(RouteOut) :
                        /\ RouteOut[i].confidence = all[k][1]
                        /\ RouteOut[i].label = all[k][2]

\* candidates 0.85, 0.15, 0.95 with threshold 0.8: two detections
C11_Witness ==
    /\ RouteReturned
    /\ args.stream_type = "COLOR"
    /\ args.confidence_threshold = 80 * Pct
    /\ Len(CandsOf(args.color_resp)) = 3
    /\ CandsOf(args.color_resp)[1].conf = 85 * Pct
    /\ CandsOf(args.color_resp)[2].conf = 15 * Pct
    /\ CandsOf(args.color_resp)[3].conf = 95 * Pct
    /\ Len(RouteOut) = 2
    /\ RouteOut[1].confidence = 85 * Pct
    /\ RouteOut[2].confidence = 95 * Pct

\* ------------------------------------------------------------------ C12
IsMapLabel == op = "map_label_to_detection_type"

\* the same letter in either case, or the same character
SameLetter(a, b) ==
    a = b \/ \E i \in 1..26 : {a, b} = {UpperChars[i], LowerChars[i]}

\* word occurs in label, letter case ignored
Has(label, word) ==
    \E i \in 0..(Len(label) - Len(word)) :
        \A k \in 1..Len(word) : SameLetter(label[i + k], word[k])

\* C12: map_label_to_detection_type is a total, case-insensitive function of
\* the label with fixed priority: a label containing 'fire' gives FIRE even
\* if it also contains 'smoke' or 'hot'; otherwise a label containing 'smoke'
\* gives SMOKE even if it also contains 'hot'; otherwise a label containing
\* 'hot' gives HOTSPOT; every other label, the empty one included, gives
\* SMOKE.
C12_LabelPriority ==
    IsMapLabel =>
        LET l == args.label
            v == ret.value
        IN /\ v \in DetectionType
           /\ Has(l, S_fire) => v = "FIRE"
           /\ (~Has(l, S_fire) /\ Has(l, S_smoke)) => v = "SMOKE"
           /\ (~Has(l, S_fire) /\ ~Has(l, S_smoke) /\ Has(l, S_hot)) => v = "HOTSPOT"
           /\ (~Has(l, S_fire) /\ ~Has(l, S_smoke) /\ ~Has(l, S_hot)) => v = "SMOKE"
           /\ l = <<>> => v = "SMOKE"

\* 'Hot Fire Smoke' gives FIRE
C12_Witness ==
    /\ IsMapLabel
    /\ args.label = <<"H","o","t"," ","F","i","r","e"," ","S","m","o","k","e">>
    /\ ret.value = "FIRE"

\* ------------------------------------------------------------------ C13
\* C13: every detection that comes from the thermal pipeline has category
\* HOTSPOT, whatever its label and whichever thermal backend is configured:
\* all detections returned for stream type THERMAL and all detections with
\* channel "thermal" returned for SPLIT; a learned thermal model's detection
\* labelled 'fire' or 'smoke' is returned as HOTSPOT.
C13_ThermalIsHotspot ==
    RouteReturned =>
        /\ args.stream_type = "THERMAL" =>
                /\ Len(RouteOut) = Len(ThermalYield)
                /\ \A i \in 1..Len(RouteOut) :
                        /\ RouteOut[i].detectionType = "HOTSPOT"
                        /\ RouteOut[i].label = ThermalYield[i].label
        /\ args.stream_type = "SPLIT" =>
                /\ Len(ThermalOut) = Len(ThermalYield)
                /\ \A j \in 1..Len(ThermalOut) :
                        /\ ThermalOut[j].detectionType = "HOTSPOT"
                        /\ ThermalOut[j].label = ThermalYield[j].label

\* a learned thermal model's 'fire' detection returned as HOTSPOT in the
\* thermal half of a split frame
C13_Witness ==
    /\ RouteReturned
    /\ args.stream_type = "SPLIT"
    /\ thermal_model = "YOLO"
    /\ Len(ThermalOut) = 1
    /\ ThermalOut[1].label = S_fire
    /\ ThermalOut[1].detectionType = "HOTSPOT"
    /\ map_label_to_detection_type(ThermalOut[1].label) = "FIRE"

\* ------------------------------------------------------------------ C14
IsHeuristic == op = "ThermalDetector.detect"

\* the values of the list ThermalDetector.detect returned
HeuristicOut == list_value(mem, ret.value)

\* the confidence of a region: its mean intensity / 255, at most 1
BlobConfidence(b) == IF b.intensity >= 255 THEN ConfUnit ELSE (b.intensity * ConfUnit) \div 255

\* the region is reported: a hotspot with its rectangle and confidence
Reported(b) ==
    \E i \in 1..Len(HeuristicOut) :
        /\ HeuristicOut[i].boundingBox =
                [x |-> b.rect[1], y |-> b.rect[2], width |-> b.rect[3], height |-> b.rect[4]]
        /\ HeuristicOut[i].confidence = BlobConfidence(b)
        /\ HeuristicOut[i].label = S_hotspot

\* the regions of this call with property P(b)
BlobsWhere(P(_)) == {args.blobs[i] : i \in {k \in 1..Len(args.blobs) : P(args.blobs[k])}}

\* C14 as claimed: a pixel is foreground exactly when its intensity is
\* greater than or equal to the configured threshold, so a region of area at
\* least 100 whose intensity is at or above the threshold is reported when
\* its confidence passes, a region whose intensity equals the threshold
\* included.
C14_InclusiveThreshold ==
    IsHeuristic =>
        \A b \in BlobsWhere(LAMBDA b : TRUE) :
            Reported(b) <=> (/\ b.intensity >= args.threshold
                             /\ b.area >= 100
                             /\ BlobConfidence(b) >= args.confidence_threshold)

\* C14 amended: a pixel is foreground exactly when its intensity is strictly
\* greater than the configured threshold: a region is reported exactly when
\* its intensity is above the threshold, its contour area is at least 100
\* and its confidence passes; a region whose intensity equals the threshold
\* is background and is not reported.
C14_StrictThreshold ==
    IsHeuristic =>
        /\ ret.exc = None
        /\ \A b \in BlobsWhere(LAMBDA b : TRUE) :
            /\ Reported(b) <=> (/\ b.intensity > args.threshold
                                /\ b.area >= 100
                                /\ BlobConfidence(b) >= args.confidence_threshold)
            /\ b.intensity = args.threshold => ~Reported(b)
        /\ Len(HeuristicOut) =
                Cardinality(BlobsWhere(LAMBDA b : /\ b.intensity > args.threshold
                                                  /\ b.area >= 100
                                                  /\ BlobConfidence(b) >= args.confidence_threshold))

\* threshold 200: a region of intensity 200 and area 100 is not reported
\* while a region of intensity 201 and area 100 is
C14_Witness ==
    /\ IsHeuristic
    /\ args.threshold = 200
    /\ args.confidence_threshold = 50 * Pct
    /\ Len(args.blobs) = 2
    /\ args.blobs[1].intensity = 200 /\ args.blobs[1].area = 100
    /\ args.blobs[2].intensity = 201 /\ args.blobs[2].area = 100
    /\ Len(HeuristicOut) = 1
    /\ HeuristicOut[1].confidence = 201 * IntensityStep

\* ------------------------------------------------------------------ C15
\* the backends the stream type of this call needs
Needed ==
    IF args.stream_type = "COLOR" THEN {"color"}
    ELSE IF args.stream_type = "THERMAL" THEN {"thermal"}
    ELSE IF args.stream_type = "SPLIT" THEN {"color", "thermal"}
    ELSE {}

\* the backend is loaded
Loaded(backend) == IF backend = "color" THEN color_model # None ELSE thermal_model # None

\* C15 as claimed: when a backend the stream type needs is not loaded,
\* route_detection does not invoke that backend and signals
\* BackendUnavailable to its caller; it returns no detection list for that
\* call, in particular not an empty one.
C15_SignalsUnavailable ==
    (IsRoute /\ \E b \in Needed : ~Loaded(b)) =>
        /\ \A b \in Needed : ~Loaded(b) => ~Invoked(b)
        /\ ret.exc = "BackendUnavailable"

\* ------------------------------------------------------------------ C17
\* the invocation of the backend failed in this call
Failed(backend) ==
    /\ Invoked(backend)
    /\ IF backend = "color" THEN args.color_resp.raises ELSE args.thermal_resp.raises

\* how often the backend was invoked in this call
Invocations(backend) ==
    Cardinality({k \in 1..Len(mem.calls) : mem.calls[k].backend = backend})

\* C17: if a backend raises during inference inside route_detection (any
\* stream type, either backend of a SPLIT call) the failure reaches the
\* caller as a failure: route_detection returns no detection list, empty or
\* not, for that call, and it does not invoke the failed backend a second
\* time.
C17_FailurePropagates ==
    IsRoute =>
        /\ (Failed("color") \/ Failed("thermal")) =>
                /\ ret.exc = "BackendInferenceFailure"
                /\ ret.value = <<>>
                /\ mem.dets = <<>> \/ Failed("thermal")
        /\ \A b \in {"color", "thermal"} : Invocations(b) <= 1
        /\ Failed("color") => ~Invoked("thermal")
        /\ ret.exc # None => (Failed("color") \/ Failed("thermal"))

\* the thermal backend of a SPLIT call fails after the color backend
\* produced a detection: the call fails, each backend was invoked once
C17_Witness ==
    /\ IsRoute
    /\ args.stream_type = "SPLIT"
    /\ ~args.color_resp.raises
    /\ Len(ColorYield) = 1
    /\ Failed("thermal")
    /\ ret.exc = "BackendInferenceFailure"
    /\ Invocations("color") = 1
    /\ Invocations("thermal") = 1

\* ------------------------------------------------------------------ C18
IsUpdate == op = "update_stats"

\* C18: every call update_stats(t, n, enabled) increases total_requests by
\* exactly 1; when enabled is true it also increases
\* detection_enabled_requests by exactly 1, total_detections by exactly n
\* and appends t as the newest entry of the latency queue; so after any
\* sequence of calls total_requests is the number of calls,
\* detection_enabled_requests the number of enabled calls and
\* total_detections the sum of n over the enabled calls.
C18_UpdateStatsCounts ==
    /\ [][op' = "update_stats" =>
            /\ detection_stats'.total_requests = detection_stats.total_requests + 1
            /\ args'.detection_enabled =>
                /\ detection_stats'.detection_enabled_requests =
                        detection_stats.detection_enabled_requests + 1
                /\ detection_stats'.total_detections =
                        detection_stats.total_detections + args'.detections_count
                /\ inference_times' # <<>>
                /\ inference_times'[Len(inference_times')] = args'.inference_time]_vars
    /\ [](/\ detection_stats.total_requests = history.calls
          /\ detection_stats.detection_enabled_requests = history.enabled_calls
          /\ detection_stats.total_detections = history.detections)

\* update_stats(t, 3, true) once on fresh statistics: total_requests 1,
\* total_detections 3, one entry in the latency queue, fps still 0
C18_Witness ==
    /\ IsUpdate
    /\ history.calls = 1
    /\ args.detection_enabled
    /\ args.detections_count = 3
    /\ args.inference_time = 4
    /\ detection_stats.total_requests = 1
    /\ detection_stats.total_detections = 3
    /\ inference_times = <<4>>
    /\ detection_stats.fps = Zero

\* ------------------------------------------------------------------ C19
\* the sum of the entries of a sequence
Total(q) ==
    LET RECURSIVE upto(_)
        upto(k) == IF k = 0 THEN 0 ELSE upto(k - 1) + q[k]
    IN upto(Len(q))

\* the times of the most recent n enabled calls, in arrival order
MostRecent(n) ==
    LET all == history.times
        k == IF Len(all) < n THEN Len(all) ELSE n
    IN [i \in 1..k |-> all[Len(all) - k + i]]

\* C19: the latency queue never holds more than 100 entries; after k
\* enabled calls it holds exactly the inference times of the most recent
\* min(k, 100) enabled calls in arrival order (oldest evicted first), and
\* after every enabled call avg_inference_time is the mean of exactly those
\* entries.
C19_WindowBound ==
    /\ Len(inference_times) <= 100
    /\ inference_times = MostRecent(100)
    /\ history.enabled_calls > 0 =>
            detection_stats.avg_inference_time.num * Len(inference_times)
                = Total(MostRecent(100)) * detection_stats.avg_inference_time.den

\* 102 enabled calls: the queue holds 100 entries, the two oldest (4 and 4)
\* are gone and the average is that of the cycle 1, 2, 3
C19_Witness ==
    /\ IsUpdate
    /\ history.enabled_calls = 102
    /\ history.times[1] = 4
    /\ history.times[2] = 4
    /\ Len(inference_times) = 100
    /\ inference_times[1] = 2
    /\ detection_stats.avg_inference_time.num * 100
            = Total(inference_times) * detection_stats.avg_inference_time.den
    /\ detection_stats.avg_inference_time.num < 4 * detection_stats.avg_inference_time.den

\* ------------------------------------------------------------------ C20
\* C20: fps keeps its initial value 0 until the latency queue holds at
\* least 10 entries; from then on every enabled update_stats call sets fps
\* to 1 divided by the mean of the 10 newest queue entries, or to 0 when
\* that mean is 0.
C20_Fps ==
    /\ Len(inference_times) < 10 => detection_stats.fps = Zero
    /\ (IsUpdate /\ args.detection_enabled /\ Len(inference_times) >= 10) =>
            LET total == Total(MostRecent(10)) IN
            IF total = 0 THEN detection_stats.fps = Zero
            ELSE detection_stats.fps.num * total = 10 * detection_stats.fps.den

\* the tenth enabled call after the times 4, 4, 2, 3, 1, 2, 3, 1, 2, 3: fps
\* becomes 10 / 25
C20_Witness ==
    /\ IsUpdate
    /\ args.detection_enabled
    /\ inference_times = <<4, 4, 2, 3, 1, 2, 3, 1, 2, 3>>
    /\ detection_stats.fps = [num |-> 2, den |-> 5]

\* ------------------------------------------------------------------ C16
IsDetect == op = "detect"

\* detection is enabled for this request
DetectEnabled == args.req.enableDetection # "false" /\ args.env.ENABLE_DETECTION

\* the request carries an image that decodes, and valid enum values
DetectDecodable ==
    /\ args.req.file \/ args.req.base64_image
    /\ args.req.decodable
    /\ args.req.streamType \in StreamType \cup {None}
    /\ args.req.splitLayout \in SplitLayout \cup {None}

\* C16: when the service is not warmed up and detection is enabled, a
\* /detect request that carries a decodable image is answered with status
\* 503 and a detail containing 'Model not loaded'; the outcome reaching the
\* client is the service-unavailable kind and no other error kind.
C16_NotReadyIs503 ==
    (IsDetect /\ ~is_warmed_up /\ DetectEnabled /\ DetectDecodable) =>
        /\ ret.status_code = 503
        /\ ret.detail = "Model not loaded or warmed up"

\* ------------------------------------------------------------------ C21
\* C21: a call update_stats(t, n, false) changes total_requests only:
\* detection_enabled_requests, total_detections, the latency queue,
\* avg_inference_time and fps have after the call the values they had
\* before it, whatever the prior state, t and n.
C21_DisabledTouchesTotalOnly ==
    [][(op' = "update_stats" /\ ~args'.detection_enabled) =>
            /\ detection_stats'.total_requests = detection_stats.total_requests + 1
            /\ detection_stats' = [detection_stats EXCEPT !.total_requests = @ + 1]
            /\ inference_times' = inference_times]_vars

\* update_stats(7, 4, false) after ten enabled calls: fps and the average
\* are non-zero, the queue holds ten entries and only total_requests is
\* ahead of the enabled calls
C21_Witness ==
    /\ IsUpdate
    /\ ~args.detection_enabled
    /\ args.inference_time = 7
    /\ args.detections_count = 4
    /\ history.enabled_calls = 10
    /\ Len(inference_times) = 10
    /\ detection_stats.fps # Zero
    /\ detection_stats.avg_inference_time # Zero
    /\ detection_stats.total_requests = 11
    /\ detection_stats.detection_enabled_requests = 10

\* ------------------------------------------------------------------ C22
\* C22: each /detect request that returns a response changes the statistics
\* as exactly one update_stats call would: total_requests increases by
\* exactly 1, and when detection was enabled detection_enabled_requests
\* increases by exactly 1, total_detections by the number of detections
\* returned, and the latency queue gains exactly one entry, the measured
\* inference time of that request.
C22_OneRecordPerResponse ==
    [][(op' = "detect" /\ ret'.status_code = 200) =>
            /\ detection_stats'.total_requests = detection_stats.total_requests + 1
            /\ ret'.enabled =>
                /\ detection_stats'.detection_enabled_requests =
                        detection_stats.detection_enabled_requests + 1
                /\ detection_stats'.total_detections =
                        detection_stats.total_detections + Len(ret'.detections)
                /\ inference_times' = Append(inference_times, ret'.inferenceTime)]_vars

\* ------------------------------------------------------------------ C23
\* no worker thread is inside update_stats
AllFinished == \A t \in Threads : threads[t].pc \in {"NotStarted", "Finished"}

\* C23: when update_stats calls run concurrently in different threads with
\* their reads and writes of the counters and of the latency queue
\* interleaved in any order, no update is lost: once all calls have
\* finished total_requests has grown by the number of calls,
\* detection_enabled_requests by the number of enabled calls,
\* total_detections by the sum of their detection counts, and the latency
\* queue holds at most 100 entries.
C23_NoLostUpdate ==
    AllFinished =>
        /\ detection_stats.total_requests = history.calls
        /\ detection_stats.detection_enabled_requests = history.enabled_calls
        /\ detection_stats.total_detections = history.detections
        /\ Len(inference_times) <= 100

\* ------------------------------------------------------------------ C24
\* C24: the statistics returned by a status call are a point-in-time copy:
\* whatever update_stats calls are made after the status call has returned,
\* the stats value that was returned still shows every counter at the value
\* it had when the status call was made.
C24_StatusIsSnapshot ==
    status_ret # NoRet /\ status_ret.answered =>
        /\ Deref(status_ret.stats) = status_ret.taken
        /\ status_ret.fps = status_ret.taken.fps
        /\ status_ret.avg_inference_time = status_ret.taken.avg_inference_time

\* ------------------------------------------------------------------ C25
\* the stream type and the split layout of the request are values of their
\* enumerations, so that the DetectionRequest can be built
DetectWellTyped ==
    /\ args.req.streamType \in StreamType \cup {None}
    /\ args.req.splitLayout \in SplitLayout \cup {None}

IsTwice == op = "ThermalDetector.detect twice"

\* every connected region found at the lower threshold lies entirely above
\* the higher threshold or entirely at or below it
RegionsKeepTogether ==
    \A i \in 1..(Len(args.tiles) - 1) :
        (args.tiles[i] > args.low /\ args.tiles[i + 1] > args.low) =>
            ((args.tiles[i] > args.high) <=> (args.tiles[i + 1] > args.high))

C27_EnabledAtMostTotal ==
    /\ detection_stats.detection_enabled_requests <= detection_stats.total_requests
    /\ requests.served = requests.answered =>
            detection_stats.detection_enabled_requests = detection_stats.total_requests

\* ------------------------------------------------------------------ C28
\* C28: a detection-enabled /detect request that ends in an error (no image
\* supplied, undecodable image, backend not ready, or backend failure
\* during inference) leaves the statistics as they were before the request:
\* total_requests, detection_enabled_requests, total_detections, the
\* latency queue, avg_inference_time and fps are all unchanged.
C28_ErrorLeavesStats ==
    [][(IsDetect /\ DetectEnabled /\ DetectWellTyped /\ ret.status_code # 200)' =>
            /\ detection_stats' = detection_stats
            /\ inference_times' = inference_times]_vars

\* ------------------------------------------------------------------ C29
\* the threshold the request asks for: its own when it supplies one, the
\* configured default otherwise
AskedThreshold ==
    IF args.req.confidenceThreshold # Absent THEN args.req.confidenceThreshold
    ELSE args.env.CONFIDENCE_THRESHOLD

\* C29: whenever a request supplies a confidence threshold, that value is
\* the threshold passed to route_detection and used for filtering, for
\* every allowed value in [0, 1] including 0.0; the configured default
\* (0.25) is used only when the request supplies no threshold.
C29_RequestThresholdUsed ==
    IsDetect =>
        /\ \A k \in 1..Len(mem.calls) : mem.calls[k].conf = AskedThreshold
        /\ ret.status_code = 200 =>
                \A i \in 1..Len(ret.detections) :
                    mem.dets[ret.detections[i]].confidence >= AskedThreshold

\* ------------------------------------------------------------------ C30
\* the backends the stream type of the /detect request needs
DetectNeeded ==
    IF args.req.streamType = "THERMAL" THEN {"thermal"}
    ELSE IF args.req.streamType = "SPLIT" THEN {"color", "thermal"}
    ELSE {"color"}

\* the request was rejected because the service is not ready
RejectedNotReady == ret.status_code = 503 \/ ret.cause.status_code = 503

\* C30: after load_model has run, whether a request is served depends only
\* on the backend its stream type needs: a THERMAL request is routed to the
\* thermal backend whenever the thermal backend is loaded, also when
\* loading the color model failed; and a request is rejected as not ready
\* only when a backend it needs is not loaded.
C30_ReadinessPerBackend ==
    (IsDetect /\ DetectEnabled /\ DetectDecodable /\ thermal_model # None) =>
        /\ args.req.streamType = "THERMAL" =>
                (~RejectedNotReady /\ Invoked("thermal"))
        /\ RejectedNotReady => \E backend \in DetectNeeded : ~Loaded(backend)

====
